---- MODULE Spec2Model ----
(***************************************************************************)
(* Billing / checkout transaction engine of the retail point-of-sale       *)
(* backend: BillingService (createInvoice, cancelInvoice), StockService     *)
(* (receiveStock, getStockBySku, checkStockAvailability) and the parts of   *)
(* ProductService that change what billing reads (updateProduct,            *)
(* deleteProduct), over a transactional relational store.                   *)
(*                                                                         *)
(* Every request is served by one logical thread; each awaited store call  *)
(* is one step, so requests interleave between their store calls.  The     *)
(* store is PostgreSQL at READ COMMITTED: statements issued through the    *)
(* transaction handle `tx` are buffered in tx[p] and become visible at      *)
(* commit, a row updated inside a transaction stays locked until that      *)
(* transaction ends, and an insert that collides with an uncommitted row   *)
(* of a unique index waits for the other transaction.                      *)
(*                                                                         *)
(* Money: prices are kept in thousandths of a currency unit (products.price *)
(* is DOUBLE PRECISION); the invoice columns are DECIMAL(10,2), modelled in *)
(* hundredths, and ToDecimal2 is the store's rounding on write.            *)
(***************************************************************************)
EXTENDS Integers, Sequences, FiniteSets, TLC

VARIABLES
    products,   \* table products: sku -> row (exists = FALSE: no such row)
    stock,      \* table stocks, keyed by the product (1:1): sku -> row
    invoices,   \* table invoices with their invoice_items, in commit order
    pc,         \* per request thread: the store call it is about to issue
    call,       \* per request thread: the arguments of the current call
    loc,        \* per request thread: local variables of the handler
    tx,         \* per request thread: uncommitted writes of its transaction
    result,     \* per request thread: what the last call returned or threw
    ncalls      \* number of calls started so far

vars == <<products, stock, invoices, pc, call, loc, tx, result, ncalls>>

-----------------------------------------------------------------------------
(* Bounds of the model *)

\* receive is offered only while the on-hand quantity stays within this cap
MaxStock == 2

\* number of calls (checkout, cancel, receive) the request threads start
MaxCalls == 4

(* Program constants *)

\* the number given to the first invoice
FirstInvoiceNumber == 1001

Procs == {"r1", "r2"}

\* SKUs of the catalog, and one SKU no product ever has
Skus == {"A", "B"}
UnknownSku == "X"
AllSkus == Skus \cup {UnknownSku}

Keys == {"k1", "k2"}

Line(s, q) == [sku |-> s, qty |-> q]

\* the carts with a payment method that are sent under either key: one line,
\* two lines of one SKU, two SKUs
Carts ==
    { <<Line("A", 1)>>, <<Line("A", 2)>>,
      <<Line("A", 1), Line("A", 1)>>,
      <<Line("A", 1), Line("B", 1)>> }

\* the checkout requests: those carts under either key, and under key k1 a
\* cart with an unknown SKU, an empty cart and a request without payment
\* method
Checkouts ==
    { [items |-> c, paymentMethod |-> "cash", key |-> k] : c \in Carts, k \in Keys }
      \cup { [items |-> <<Line(UnknownSku, 1)>>, paymentMethod |-> "cash", key |-> "k1"],
             [items |-> <<>>, paymentMethod |-> "cash", key |-> "k1"],
             [items |-> <<Line("A", 1)>>, paymentMethod |-> "", key |-> "k1"] }

\* checkout requests the route refuses: an item whose sku is empty, an item
\* with qty 0 and one with a negative qty, next to the cart of a stocked SKU
MalformedCheckouts ==
    { [items |-> <<Line("", 1)>>, paymentMethod |-> "cash", key |-> "k2"],
      [items |-> <<Line("A", 0)>>, paymentMethod |-> "cash", key |-> "k2"],
      [items |-> <<Line("A", 1), Line("B", 0 - 1)>>, paymentMethod |-> "cash",
       key |-> "k2"] }

\* the goods receipts
Receipts ==
    { [sku |-> "A", qty |-> 1], [sku |-> "B", qty |-> 1],
      [sku |-> UnknownSku, qty |-> 1], [sku |-> "A", qty |-> 0] }

\* the arguments of StockService.decreaseStock and StockService.increaseStock
Adjustments ==
    { [sku |-> "A", qty |-> 1], [sku |-> "B", qty |-> 1],
      [sku |-> UnknownSku, qty |-> 1] }

\* the item lists given to StockService.checkStockAvailability
AvailabilityChecks ==
    Carts \cup { <<Line(UnknownSku, 1), Line("B", 1)>> }

\* the periods given to BillingService.getInvoiceStats: no dates, both dates,
\* and one date alone
Periods ==
    { [fromDate |-> <<>>, toDate |-> <<>>],
      [fromDate |-> <<1>>, toDate |-> <<2>>],
      [fromDate |-> <<1>>, toDate |-> <<>>],
      [fromDate |-> <<>>, toDate |-> <<0>>] }

\* the product data given to ProductService.createProduct: the SKU stands
\* for the fields the SKU is generated from; active and initialStock are
\* optional
ProductData ==
    { [sku |-> "B", name |-> "Sugar", price |-> 2500, active |-> <<>>,
       initialStock |-> <<>>],
      [sku |-> "B", name |-> "Sugar", price |-> 2500, active |-> <<FALSE>>,
       initialStock |-> <<1>>] }

\* the last sequence number generateUniqueSKU lets its loop go on from
MaxSequence == 99

\* the product information SKUs are generated from
ProductInfos ==
    { [productType |-> "BISCUIT", brand |-> "PARLE", weight |-> 800,
       weightUnit |-> "GRAM"] }

\* the invoice numbers cancel requests name
CancelNumbers == FirstInvoiceNumber .. (FirstInvoiceNumber + Cardinality(Keys) - 1)

-----------------------------------------------------------------------------
(* Rows and responses *)

NoStock ==
    [exists |-> FALSE, quantity |-> 0, receivedTotal |-> 0, soldTotal |-> 0,
     lastReceivedAt |-> "null"]

\* products: id tells the rows apart that one SKU has over time (0: the row
\* present from the start, else the number of the call that created it)
NoProduct ==
    [exists |-> FALSE, active |-> FALSE, name |-> "", price |-> 0, id |-> 0]

NoCall ==
    [op |-> "none", items |-> <<>>, paymentMethod |-> "", idempotencyKey |-> "",
     invoiceNumber |-> 0, sku |-> "", qty |-> 0]

NoLoc ==
    [i |-> 0, unavailableItems |-> <<>>, invoiceNumber |-> 0, subtotal |-> 0,
     invoice |-> <<>>, product |-> <<>>, productId |-> 0,
     stockFound |-> FALSE]

NoTx ==
    [invoice |-> <<>>, items |-> <<>>, sold |-> [s \in Skus |-> 0],
     locked |-> {}, product |-> <<>>, stock |-> <<>>]

NoResult ==
    [kind |-> "none", error |-> "", data |-> <<>>, unavailableItems |-> <<>>]

Ok(resp) ==
    [kind |-> "ok", error |-> "", data |-> <<resp>>, unavailableItems |-> <<>>]

Err(e) ==
    [kind |-> "error", error |-> e, data |-> <<>>, unavailableItems |-> <<>>]

\* DECIMAL(10,2) column written from a number in thousandths: rounded to
\* hundredths, halves away from zero (amounts here are never negative)
ToDecimal2(mills) == (mills + 5) \div 10

\* fault variant of FindByKey: a lookup that leaves cancelled invoices out
FindByKeyPaidOnly(invs, key) ==
    SelectSeq(invs, LAMBDA v : v.idempotencyKey = key /\ v.status = "paid")

\* the invoice committed under a key / a number, as a sequence of 0 or 1 rows
FindByKey(invs, key) == SelectSeq(invs, LAMBDA v : v.idempotencyKey = key)
FindByNumber(invs, n) == SelectSeq(invs, LAMBDA v : v.invoiceNumber = n)

RECURSIVE MaxNumber(_)
MaxNumber(invs) ==
    IF invs = <<>> THEN 0
    ELSE LET m == MaxNumber(Tail(invs))
         IN  IF Head(invs).invoiceNumber > m THEN Head(invs).invoiceNumber ELSE m

\* fault variant of formatInvoiceResponse: the name of an item is read from
\* its product
formatInvoiceResponseJoined(invoice, newInvoice) ==
    [invoiceNumber |-> invoice.invoiceNumber,
     subtotal |-> invoice.subtotal,
     grandTotal |-> invoice.grandTotal,
     paymentMethod |-> invoice.paymentMethod,
     idempotencyKey |-> invoice.idempotencyKey,
     newInvoice |-> newInvoice,
     status |-> invoice.status,
     items |-> [k \in 1..Len(invoice.items) |->
                  [sku |-> invoice.items[k].sku,
                   productName |-> products[invoice.items[k].sku].name,
                   qty |-> invoice.items[k].qty,
                   unitPrice |-> invoice.items[k].unitPrice,
                   lineTotal |-> invoice.items[k].lineTotal]]]

\* BillingService.formatInvoiceResponse
formatInvoiceResponse(invoice, newInvoice) ==
    [invoiceNumber |-> invoice.invoiceNumber,
     subtotal |-> invoice.subtotal,
     grandTotal |-> invoice.grandTotal,
     paymentMethod |-> invoice.paymentMethod,
     idempotencyKey |-> invoice.idempotencyKey,
     newInvoice |-> newInvoice,
     status |-> invoice.status,
     items |-> [k \in 1..Len(invoice.items) |->
                  [sku |-> invoice.items[k].sku,
                   productName |-> invoice.items[k].productName,
                   qty |-> invoice.items[k].qty,
                   unitPrice |-> invoice.items[k].unitPrice,
                   lineTotal |-> invoice.items[k].lineTotal]]]

\* StockService.getStockBySku: <<>> for an unknown SKU, zeros for a product
\* without stock row
getStockBySku(sku) ==
    IF sku \notin Skus \/ ~products[sku].exists THEN <<>>
    ELSE IF ~stock[sku].exists
         THEN <<[sku |-> sku, quantity |-> 0, receivedTotal |-> 0, soldTotal |-> 0]>>
         ELSE <<[sku |-> sku, quantity |-> stock[sku].quantity,
                 receivedTotal |-> stock[sku].receivedTotal,
                 soldTotal |-> stock[sku].soldTotal]>>

\* fault variant of checkItem: the comparison is <= instead of <
checkItemOffByOne(item, unavailableItems) ==
    LET st == getStockBySku(item.sku)
    IN  IF st = <<>>
        THEN Append(unavailableItems,
                    [sku |-> item.sku, requested |-> item.qty, available |-> 0])
        ELSE IF st[1].quantity <= item.qty
             THEN Append(unavailableItems,
                         [sku |-> item.sku, requested |-> item.qty,
                          available |-> st[1].quantity])
             ELSE unavailableItems

\* fault variant of checkItem: an item whose SKU is unknown is passed over
checkItemKnownOnly(item, unavailableItems) ==
    LET st == getStockBySku(item.sku)
    IN  IF st = <<>>
        THEN unavailableItems
        ELSE IF st[1].quantity < item.qty
             THEN Append(unavailableItems,
                         [sku |-> item.sku, requested |-> item.qty,
                          available |-> st[1].quantity])
             ELSE unavailableItems

\* one pass of the loop of StockService.checkStockAvailability
checkItem(item, unavailableItems) ==
    LET st == getStockBySku(item.sku)
    IN  IF st = <<>>
        THEN Append(unavailableItems,
                    [sku |-> item.sku, requested |-> item.qty, available |-> 0])
        ELSE IF st[1].quantity < item.qty
             THEN Append(unavailableItems,
                         [sku |-> item.sku, requested |-> item.qty,
                          available |-> st[1].quantity])
             ELSE unavailableItems

\* the clock behind DEFAULT CURRENT_TIMESTAMP, in ticks of one per committed
\* invoice
Now == Len(invoices)

-----------------------------------------------------------------------------
(* The store's transaction machinery *)

Idle(p) == pc[p] \in {"idle", "done"}

InTx(p) ==
    pc[p] \in {"txinsert", "txline", "txitem", "txstock", "txcommit",
               "crestore", "ccommit", "delfind", "delstock", "delproduct",
               "pcreate", "pstock", "pcommit"}

\* the product row read earlier under this SKU is still there
HasProduct(sku, id) == products[sku].exists /\ products[sku].id = id

\* a stock row updated by another open transaction is locked
RowLocked(p, sku) == \E q \in Procs \ {p} : sku \in tx[q].locked

\* an invoice row inserted by another open transaction under the same number
\* or key makes the insert wait
InsertWaits(p, number, key) ==
    \E q \in Procs \ {p} :
        /\ tx[q].invoice # <<>>
        /\ \/ tx[q].invoice[1].invoiceNumber = number
           \/ tx[q].invoice[1].idempotencyKey = key

\* fault variants of UniqueViolation: one of the two unique indexes is missing
UniqueViolationNumberOnly(invs, number, key) ==
    \E k \in 1..Len(invs) : invs[k].invoiceNumber = number

UniqueViolationKeyOnly(invs, number, key) ==
    \E k \in 1..Len(invs) : invs[k].idempotencyKey = key

\* the unique indexes invoices_invoice_number_key and
\* invoices_idempotency_key_key
UniqueViolation(invs, number, key) ==
    \/ FindByNumber(invs, number) # <<>>
    \/ FindByKey(invs, key) # <<>>

\* fault variant of ApplySold: units given back by a cancel are also taken
\* off receivedTotal
ApplySoldUnreceives(st, sold) ==
    [s \in Skus |->
        IF sold[s] = 0 \/ ~st[s].exists THEN st[s]
        ELSE [st[s] EXCEPT !.quantity = @ - sold[s],
                           !.soldTotal = @ + sold[s],
                           !.receivedTotal =
                               IF sold[s] < 0 THEN @ + sold[s] ELSE @]]

\* fault variant of ApplySold: soldTotal is left out of the update
ApplySoldQuantityOnly(st, sold) ==
    [s \in Skus |->
        IF sold[s] = 0 \/ ~st[s].exists THEN st[s]
        ELSE [st[s] EXCEPT !.quantity = @ - sold[s]]]

\* the stock table after the sold deltas of a transaction are committed
ApplySold(st, sold) ==
    [s \in Skus |->
        IF sold[s] = 0 \/ ~st[s].exists THEN st[s]
        ELSE [st[s] EXCEPT !.quantity = @ - sold[s],
                           !.soldTotal = @ + sold[s]]]

\* the call of p ends with r; its locals and uncommitted writes are dropped
Finish(p, r) ==
    /\ pc' = [pc EXCEPT ![p] = "done"]
    /\ result' = [result EXCEPT ![p] = r]
    /\ loc' = [loc EXCEPT ![p] = NoLoc]
    /\ tx' = [tx EXCEPT ![p] = NoTx]

\* fault variant of Rollback: the stock updates were issued through the global
\* client instead of the transaction handle, so they outlive the exception
RollbackKeepsStock(p, e) ==
    /\ pc' = [pc EXCEPT ![p] = "done"]
    /\ result' = [result EXCEPT ![p] = Err(e)]
    /\ loc' = [loc EXCEPT ![p] = NoLoc]
    /\ tx' = [tx EXCEPT ![p] = NoTx]
    /\ stock' = ApplySold(stock, tx[p].sold)
    /\ UNCHANGED <<products, invoices, call, ncalls>>

\* an exception inside prisma.$transaction: nothing of tx[p] is committed
Rollback(p, e) ==
    /\ Finish(p, Err(e))
    /\ UNCHANGED <<products, stock, invoices, call, ncalls>>

-----------------------------------------------------------------------------
(* BillingService.createInvoice *)

\* the input validation, which runs before the first store call
validate(items, paymentMethod) ==
    IF items = <<>> THEN "ValidationError"
    ELSE IF paymentMethod = "" THEN "ValidationError"
    ELSE ""

\* fault variant of validateRequest: the qty of the items is not looked at
validateRequestNoQty(items, paymentMethod) ==
    IF items = <<>> THEN "ValidationError"
    ELSE IF paymentMethod = "" THEN "ValidationError"
    ELSE IF \E i \in 1..Len(items) : items[i].sku = "" THEN "ValidationError"
    ELSE ""

\* the validation of POST /billing/checkout, which answers 400 before the
\* service is called: items a non-empty array, paymentMethod present, every
\* item with a non-empty sku and a positive qty
validateRequest(items, paymentMethod) ==
    IF items = <<>> THEN "ValidationError"
    ELSE IF paymentMethod = "" THEN "ValidationError"
    ELSE IF \E i \in 1..Len(items) : items[i].sku = "" \/ items[i].qty <= 0
         THEN "ValidationError"
    ELSE ""

\* the route's validation followed by the service's
validateCheckout(items, paymentMethod) ==
    IF validateRequest(items, paymentMethod) # ""
    THEN validateRequest(items, paymentMethod)
    ELSE validate(items, paymentMethod)

\* fault variant of checkoutResponse: the status is 201 in either case
checkoutResponseAlwaysCreated(invoice) ==
    [status |-> 201,
     message |-> <<"Invoice #", invoice.invoiceNumber,
                   IF invoice.newInvoice THEN " created successfully"
                   ELSE " fecthed successfully">>,
     data |-> invoice]

\* the answer of POST /billing/checkout to what createInvoice returned
checkoutResponse(invoice) ==
    [status |-> IF invoice.newInvoice THEN 201 ELSE 200,
     message |-> <<"Invoice #", invoice.invoiceNumber,
                   IF invoice.newInvoice THEN " created successfully"
                   ELSE " fecthed successfully">>,
     data |-> invoice]

\* the phrases errorHandler looks for, as far as the message of an error of
\* the services contains them (the store's "record to update not found"
\* carries one, its other failures none; the services' own validation
\* messages carry none either, nor does decreaseStock's "Insufficient Stock
\* for ...": the phrases are matched with their case)
errorPhrases(e) ==
    CASE e = "InsufficientStock" -> {"Insufficient stock"}
      [] e = "NotFound" -> {"not found"}
      [] e = "InactiveProduct" -> {"not active"}
      [] e = "AlreadyCancelled" -> {"already cancelled"}
      [] e = "InvalidState" -> {"Can only cancel"}
      [] e = "RecordNotFound" -> {"not found"}
      [] OTHER -> {}

\* the router's errorHandler: the status it answers an error with
errorHandler(e) ==
    IF errorPhrases(e) \cap {"Insufficient stock", "not found", "not active"} # {}
    THEN 400
    ELSE IF errorPhrases(e) \cap {"already cancelled", "Can only cancel"} # {}
    THEN 400
    ELSE 500

\* the status a route answers with, given the outcome of the call:
\* validation is answered 400 by the route; POST /stocks/receive catches
\* every error of the service itself and answers 500; checkout and cancel
\* pass their errors to errorHandler
httpStatus(op, r) ==
    IF r.kind = "ok"
    THEN IF op = "checkout" THEN checkoutResponse(r.data[1]).status ELSE 200
    ELSE IF r.error \in {"ValidationError", "InvalidQuantity"} THEN 400
    ELSE IF op = "receive" THEN 500
    ELSE errorHandler(r.error)

\* fault variant of CheckoutStart: the invoice of the key is looked up, and
\* returned, before the input is validated
CheckoutStartLookupFirst(p, items, paymentMethod, key) ==
    /\ Idle(p)
    /\ ncalls < MaxCalls
    /\ ncalls' = ncalls + 1
    /\ call' = [call EXCEPT ![p] =
                  [NoCall EXCEPT !.op = "checkout", !.items = items,
                                 !.paymentMethod = paymentMethod,
                                 !.idempotencyKey = key]]
    /\ loc' = [loc EXCEPT ![p] = NoLoc]
    /\ tx' = [tx EXCEPT ![p] = NoTx]
    /\ IF FindByKey(invoices, key) # <<>>
       THEN /\ pc' = [pc EXCEPT ![p] = "done"]
            /\ result' = [result EXCEPT ![p] =
                            Ok(formatInvoiceResponse(FindByKey(invoices, key)[1],
                                                     FALSE))]
       ELSE IF validateCheckout(items, paymentMethod) # ""
       THEN /\ pc' = [pc EXCEPT ![p] = "done"]
            /\ result' = [result EXCEPT ![p] =
                            Err(validateCheckout(items, paymentMethod))]
       ELSE /\ pc' = [pc EXCEPT ![p] = "find"]
            /\ result' = [result EXCEPT ![p] = NoResult]
    /\ UNCHANGED <<products, stock, invoices>>

\* a request thread takes a checkout call and validates its input
CheckoutStart(p, items, paymentMethod, key) ==
    /\ Idle(p)
    /\ ncalls < MaxCalls
    /\ ncalls' = ncalls + 1
    /\ call' = [call EXCEPT ![p] =
                  [NoCall EXCEPT !.op = "checkout", !.items = items,
                                 !.paymentMethod = paymentMethod,
                                 !.idempotencyKey = key]]
    /\ loc' = [loc EXCEPT ![p] = NoLoc]
    /\ tx' = [tx EXCEPT ![p] = NoTx]
    /\ IF validateCheckout(items, paymentMethod) # ""
       THEN /\ pc' = [pc EXCEPT ![p] = "done"]
            /\ result' = [result EXCEPT ![p] =
                            Err(validateCheckout(items, paymentMethod))]
       ELSE /\ pc' = [pc EXCEPT ![p] = "find"]
            /\ result' = [result EXCEPT ![p] = NoResult]
    /\ UNCHANGED <<products, stock, invoices>>

\* fault variant of FindExisting: the stock of the cart is checked before the
\* invoice found under the key is returned
FindExistingChecksStock(p) ==
    /\ pc[p] = "find"
    /\ LET existingInvoice == FindByKey(invoices, call[p].idempotencyKey)
           short == \E i \in 1..Len(call[p].items) :
                        checkItem(call[p].items[i], <<>>) # <<>>
       IN  IF short
           THEN Finish(p, Err("InsufficientStock"))
           ELSE IF existingInvoice # <<>>
           THEN Finish(p, Ok(formatInvoiceResponse(existingInvoice[1], FALSE)))
           ELSE /\ pc' = [pc EXCEPT ![p] = "avail"]
                /\ loc' = [loc EXCEPT ![p].i = 1]
                /\ UNCHANGED <<result, tx>>
    /\ UNCHANGED <<products, stock, invoices, call, ncalls>>

\* fault variant of FindExisting: a cancelled invoice does not count as the
\* invoice of its key
FindExistingNotCancelled(p) ==
    /\ pc[p] = "find"
    /\ LET existingInvoice == FindByKey(invoices, call[p].idempotencyKey)
       IN  IF existingInvoice # <<>> /\ existingInvoice[1].status # "cancelled"
           THEN Finish(p, Ok(formatInvoiceResponse(existingInvoice[1], FALSE)))
           ELSE /\ pc' = [pc EXCEPT ![p] = "avail"]
                /\ loc' = [loc EXCEPT ![p].i = 1]
                /\ UNCHANGED <<result, tx>>
    /\ UNCHANGED <<products, stock, invoices, call, ncalls>>

\* the idempotency lookup, prisma.invoice.findUnique by key: an invoice found
\* is returned as it is stored
FindExisting(p) ==
    /\ pc[p] = "find"
    /\ LET existingInvoice == FindByKey(invoices, call[p].idempotencyKey)
       IN  IF existingInvoice # <<>>
           THEN Finish(p, Ok(formatInvoiceResponse(existingInvoice[1], FALSE)))
           ELSE /\ pc' = [pc EXCEPT ![p] = "avail"]
                /\ loc' = [loc EXCEPT ![p].i = 1]
                /\ UNCHANGED <<result, tx>>
    /\ UNCHANGED <<products, stock, invoices, call, ncalls>>

\* StockService.checkStockAvailability, one cart line per store read; after
\* the last line the shortfalls decide
CheckAvailability(p) ==
    /\ pc[p] = "avail"
    /\ LET items == call[p].items
           i == loc[p].i
           unavailableItems == checkItem(items[i], loc[p].unavailableItems)
       IN  IF i < Len(items)
           THEN /\ loc' = [loc EXCEPT ![p].i = i + 1,
                                      ![p].unavailableItems = unavailableItems]
                /\ UNCHANGED <<pc, result, tx>>
           ELSE IF unavailableItems # <<>>
           THEN Finish(p, [Err("InsufficientStock") EXCEPT
                              !.unavailableItems = unavailableItems])
           ELSE /\ pc' = [pc EXCEPT ![p] = "txnum"]
                /\ loc' = [loc EXCEPT ![p].i = 0,
                                      ![p].unavailableItems = <<>>]
                /\ UNCHANGED <<result, tx>>
    /\ UNCHANGED <<products, stock, invoices, call, ncalls>>

\* fault variant of nextInvoiceNumber: the first number is 1
nextInvoiceNumberStartsAtOne(invs) ==
    IF invs = <<>> THEN 1 ELSE MaxNumber(invs) + 1

\* BillingService.getNextInvoiceNumber: reads through the global client, so it
\* sees committed invoices only
nextInvoiceNumber(invs) ==
    IF invs = <<>> THEN FirstInvoiceNumber ELSE MaxNumber(invs) + 1

GetNextInvoiceNumber(p) ==
    /\ pc[p] = "txnum"
    /\ pc' = [pc EXCEPT ![p] = "txinsert"]
    /\ loc' = [loc EXCEPT ![p].invoiceNumber = nextInvoiceNumber(invoices)]
    /\ UNCHANGED <<products, stock, invoices, call, tx, result, ncalls>>

\* fault variant of InvoiceCreate: the invoice row is inserted through the
\* global client and so committed before its items exist
InvoiceCreateAutocommit(p) ==
    /\ pc[p] = "txinsert"
    /\ ~InsertWaits(p, loc[p].invoiceNumber, call[p].idempotencyKey)
    /\ IF UniqueViolation(invoices, loc[p].invoiceNumber, call[p].idempotencyKey)
       THEN Rollback(p, "UniqueConstraint")
       ELSE /\ tx' = [tx EXCEPT ![p].invoice =
                        <<[invoiceNumber |-> loc[p].invoiceNumber,
                           subtotal |-> 0,
                           grandTotal |-> 0,
                           paymentMethod |-> call[p].paymentMethod,
                           idempotencyKey |-> call[p].idempotencyKey,
                           status |-> "paid",
                           createdAt |-> Now]>>]
            /\ invoices' = Append(invoices,
                                  [invoiceNumber |-> loc[p].invoiceNumber,
                                   subtotal |-> 0,
                                   grandTotal |-> 0,
                                   paymentMethod |-> call[p].paymentMethod,
                                   idempotencyKey |-> call[p].idempotencyKey,
                                   status |-> "paid",
                                   createdAt |-> Now,
                                   items |-> <<>>])
            /\ pc' = [pc EXCEPT ![p] = "txline"]
            /\ loc' = [loc EXCEPT ![p].i = 1, ![p].subtotal = 0]
            /\ UNCHANGED <<products, stock, call, result, ncalls>>

\* tx.invoice.create
InvoiceCreate(p) ==
    /\ pc[p] = "txinsert"
    /\ ~InsertWaits(p, loc[p].invoiceNumber, call[p].idempotencyKey)
    /\ IF UniqueViolation(invoices, loc[p].invoiceNumber, call[p].idempotencyKey)
       THEN Rollback(p, "UniqueConstraint")
       ELSE /\ tx' = [tx EXCEPT ![p].invoice =
                        <<[invoiceNumber |-> loc[p].invoiceNumber,
                           subtotal |-> 0,
                           grandTotal |-> 0,
                           paymentMethod |-> call[p].paymentMethod,
                           idempotencyKey |-> call[p].idempotencyKey,
                           status |-> "paid",
                           createdAt |-> Now]>>]
            /\ pc' = [pc EXCEPT ![p] = "txline"]
            /\ loc' = [loc EXCEPT ![p].i = 1, ![p].subtotal = 0]
            /\ UNCHANGED <<products, stock, invoices, call, result, ncalls>>

\* fault variant of ProductFind: the active flag of the product is not looked
\* at
ProductFindAnyProduct(p) ==
    /\ pc[p] = "txline"
    /\ LET item == call[p].items[loc[p].i]
           sku == item.sku
       IN  IF sku \notin Skus \/ ~products[sku].exists
           THEN Rollback(p, "NotFound")
           ELSE /\ loc' = [loc EXCEPT ![p].product =
                             <<[sku |-> sku,
                                name |-> products[sku].name,
                                price |-> products[sku].price,
                                active |-> products[sku].active,
                                id |-> products[sku].id]>>]
                /\ pc' = [pc EXCEPT ![p] = "txitem"]
                /\ UNCHANGED <<products, stock, invoices, call, tx, result,
                               ncalls>>

\* the loop over the cart, first call of a pass: tx.product.findUnique and
\* the two checks on the product read
ProductFind(p) ==
    /\ pc[p] = "txline"
    /\ LET item == call[p].items[loc[p].i]
           sku == item.sku
       IN  IF sku \notin Skus \/ ~products[sku].exists
           THEN Rollback(p, "NotFound")
           ELSE IF ~products[sku].active
           THEN Rollback(p, "InactiveProduct")
           ELSE /\ loc' = [loc EXCEPT ![p].product =
                             <<[sku |-> sku,
                                name |-> products[sku].name,
                                price |-> products[sku].price,
                                active |-> products[sku].active,
                                id |-> products[sku].id]>>]
                /\ pc' = [pc EXCEPT ![p] = "txitem"]
                /\ UNCHANGED <<products, stock, invoices, call, tx, result,
                               ncalls>>

\* second call of a pass: tx.invoiceItem.create, from the product as it was
\* read (the item refers to the product row, which must still be there); the
\* line total is added to the running subtotal before the call
InvoiceItemCreate(p) ==
    /\ pc[p] = "txitem"
    /\ LET item == call[p].items[loc[p].i]
           product == loc[p].product[1]
           lineTotal == product.price * item.qty
           invoiceItem ==
               [sku |-> product.sku,
                productName |-> product.name,
                qty |-> item.qty,
                unitPrice |-> ToDecimal2(product.price),
                lineTotal |-> ToDecimal2(lineTotal)]
       IN  IF ~HasProduct(product.sku, product.id)
           THEN Rollback(p, "ForeignKeyConstraint")
           ELSE /\ tx' = [tx EXCEPT ![p].items = Append(@, invoiceItem)]
                /\ loc' = [loc EXCEPT ![p].subtotal = @ + lineTotal]
                /\ pc' = [pc EXCEPT ![p] = "txstock"]
                /\ UNCHANGED <<products, stock, invoices, call, result,
                               ncalls>>

\* third call of a pass: tx.stock.update by the product's id, which waits
\* for the row while another transaction holds it
StockUpdate(p) ==
    /\ pc[p] = "txstock"
    /\ LET item == call[p].items[loc[p].i]
           sku == loc[p].product[1].sku
       IN  /\ ~RowLocked(p, sku)
           /\ IF ~stock[sku].exists \/ ~HasProduct(sku, loc[p].product[1].id)
              THEN Rollback(p, "RecordNotFound")
              ELSE /\ tx' = [tx EXCEPT ![p].sold[sku] = @ + item.qty,
                                       ![p].locked = @ \cup {sku}]
                   /\ loc' = [loc EXCEPT ![p].i = @ + 1,
                                         ![p].product = <<>>]
                   /\ pc' = [pc EXCEPT ![p] =
                               IF loc[p].i < Len(call[p].items)
                               THEN "txline" ELSE "txcommit"]
                   /\ UNCHANGED <<products, stock, invoices, call, result,
                                  ncalls>>

\* tx.invoice.update with the totals, and the commit of the transaction
CommitInvoice(p) ==
    /\ pc[p] = "txcommit"
    /\ LET updatedInvoice ==
               [invoiceNumber |-> tx[p].invoice[1].invoiceNumber,
                subtotal |-> ToDecimal2(loc[p].subtotal),
                grandTotal |-> ToDecimal2(loc[p].subtotal),
                paymentMethod |-> tx[p].invoice[1].paymentMethod,
                idempotencyKey |-> tx[p].invoice[1].idempotencyKey,
                status |-> tx[p].invoice[1].status,
                createdAt |-> tx[p].invoice[1].createdAt,
                items |-> tx[p].items]
       IN  /\ invoices' = Append(invoices, updatedInvoice)
           /\ stock' = ApplySold(stock, tx[p].sold)
           /\ Finish(p, Ok(formatInvoiceResponse(updatedInvoice, TRUE)))
    /\ UNCHANGED <<products, call, ncalls>>

-----------------------------------------------------------------------------
(* BillingService.cancelInvoice *)

\* fault variant of cancelGuard: the status of the invoice is not looked at
cancelGuardExistsOnly(found) ==
    IF found = <<>> THEN "NotFound" ELSE ""

\* the checks on the invoice the lookup returned: "" lets the cancel proceed
cancelGuard(found) ==
    IF found = <<>> THEN "NotFound"
    ELSE IF found[1].status = "cancelled" THEN "AlreadyCancelled"
    ELSE IF found[1].status # "paid" THEN "InvalidState"
    ELSE ""

\* a request thread takes a cancel call
CancelStart(p, invoiceNumber) ==
    /\ Idle(p)
    /\ ncalls < MaxCalls
    /\ ncalls' = ncalls + 1
    /\ call' = [call EXCEPT ![p] =
                  [NoCall EXCEPT !.op = "cancel", !.invoiceNumber = invoiceNumber]]
    /\ loc' = [loc EXCEPT ![p] = NoLoc]
    /\ tx' = [tx EXCEPT ![p] = NoTx]
    /\ pc' = [pc EXCEPT ![p] = "cfind"]
    /\ result' = [result EXCEPT ![p] = NoResult]
    /\ UNCHANGED <<products, stock, invoices>>

\* prisma.invoice.findUnique by number, with its items, and the status checks
CancelLookup(p) ==
    /\ pc[p] = "cfind"
    /\ LET found == FindByNumber(invoices, call[p].invoiceNumber)
       IN  IF cancelGuard(found) # ""
           THEN Finish(p, Err(cancelGuard(found)))
           ELSE /\ pc' = [pc EXCEPT ![p] = "crestore"]
                /\ loc' = [loc EXCEPT ![p].i = 1, ![p].invoice = found]
                /\ UNCHANGED <<result, tx>>
    /\ UNCHANGED <<products, stock, invoices, call, ncalls>>

\* fault variant of RestoreItem: one unit is given back per item, whatever
\* its qty
RestoreItemOneUnit(p) ==
    /\ pc[p] = "crestore"
    /\ LET item == loc[p].invoice[1].items[loc[p].i]
           sku == item.sku
       IN  /\ ~RowLocked(p, sku)
           /\ IF ~stock[sku].exists
              THEN Rollback(p, "RecordNotFound")
              ELSE /\ tx' = [tx EXCEPT ![p].sold[sku] = @ - 1,
                                       ![p].locked = @ \cup {sku}]
                   /\ loc' = [loc EXCEPT ![p].i = @ + 1]
                   /\ pc' = [pc EXCEPT ![p] =
                               IF loc[p].i < Len(loc[p].invoice[1].items)
                               THEN "crestore" ELSE "ccommit"]
                   /\ UNCHANGED <<products, stock, invoices, call, result, ncalls>>

\* one pass of the restore loop: tx.stock.update for one item of the invoice
\* as it was read by the lookup
RestoreItem(p) ==
    /\ pc[p] = "crestore"
    /\ LET item == loc[p].invoice[1].items[loc[p].i]
           sku == item.sku
       IN  /\ ~RowLocked(p, sku)
           /\ IF ~stock[sku].exists
              THEN Rollback(p, "RecordNotFound")
              ELSE /\ tx' = [tx EXCEPT ![p].sold[sku] = @ - item.qty,
                                       ![p].locked = @ \cup {sku}]
                   /\ loc' = [loc EXCEPT ![p].i = @ + 1]
                   /\ pc' = [pc EXCEPT ![p] =
                               IF loc[p].i < Len(loc[p].invoice[1].items)
                               THEN "crestore" ELSE "ccommit"]
                   /\ UNCHANGED <<products, stock, invoices, call, result, ncalls>>

\* fault variant of MarkCancelled: the update also empties the items relation
MarkCancelledDropsItems(invs, number) ==
    [k \in 1..Len(invs) |->
        IF invs[k].invoiceNumber = number
        THEN [invs[k] EXCEPT !.status = "cancelled", !.items = <<>>]
        ELSE invs[k]]

\* fault variant of MarkCancelled: the status is written in another spelling
MarkCancelledMisspelt(invs, number) ==
    [k \in 1..Len(invs) |->
        IF invs[k].invoiceNumber = number
        THEN [invs[k] EXCEPT !.status = "canceled"]
        ELSE invs[k]]

\* the invoices table after tx.invoice.update sets status = cancelled
MarkCancelled(invs, number) ==
    [k \in 1..Len(invs) |->
        IF invs[k].invoiceNumber = number
        THEN [invs[k] EXCEPT !.status = "cancelled"]
        ELSE invs[k]]

\* tx.invoice.update with status cancelled, and the commit
CancelCommit(p) ==
    /\ pc[p] = "ccommit"
    /\ invoices' = MarkCancelled(invoices, call[p].invoiceNumber)
    /\ stock' = ApplySold(stock, tx[p].sold)
    /\ Finish(p, Ok(formatInvoiceResponse(
                        FindByNumber(invoices', call[p].invoiceNumber)[1], FALSE)))
    /\ UNCHANGED <<products, call, ncalls>>

\* a transaction that does not reach its commit (the interactive transaction
\* times out, is chosen as deadlock victim, or its connection is lost) is
\* rolled back by the store
TxAbort(p) ==
    /\ InTx(p)
    /\ Rollback(p, "TransactionFailed")

-----------------------------------------------------------------------------
(* BillingService.getInvoiceStats *)

\* fault variant of dateFilter: a date given alone bounds the period on its
\* side
dateFilterOneSided(invoice, fromDate, toDate) ==
    /\ fromDate # <<>> => fromDate[1] <= invoice.createdAt
    /\ toDate # <<>> => invoice.createdAt <= toDate[1]

\* the where clause shared by the three queries: the date filter is applied
\* only when both dates are given
dateFilter(invoice, fromDate, toDate) ==
    IF fromDate # <<>> /\ toDate # <<>>
    THEN fromDate[1] <= invoice.createdAt /\ invoice.createdAt <= toDate[1]
    ELSE TRUE

\* _sum of grandTotal; over no rows, the null that Number(...) || 0 turns
\* into 0
RECURSIVE sumGrandTotal(_)
sumGrandTotal(invs) ==
    IF invs = <<>> THEN 0
    ELSE Head(invs).grandTotal + sumGrandTotal(Tail(invs))

\* the three queries of getInvoiceStats, in the order of the array given to
\* Promise.all
StatsQueries == {"countPaid", "sumPaid", "countCancelled"}

\* fault variant of statsQuery: the count of invoices has no status filter
statsQueryAnyStatus(query, invs, fromDate, toDate) ==
    LET all == SelectSeq(invs, LAMBDA v : dateFilter(v, fromDate, toDate))
        paid == SelectSeq(invs, LAMBDA v :
                    v.status = "paid" /\ dateFilter(v, fromDate, toDate))
        cancelled == SelectSeq(invs, LAMBDA v :
                    v.status = "cancelled" /\ dateFilter(v, fromDate, toDate))
    IN  CASE query = "countPaid" -> Len(all)
          [] query = "sumPaid" -> sumGrandTotal(paid)
          [] query = "countCancelled" -> Len(cancelled)

\* what one of the queries answers on the invoices as they are: the count of
\* the paid invoices, the sum of their grandTotal, the count of the cancelled
\* ones, each under the date filter
statsQuery(query, invs, fromDate, toDate) ==
    LET paid == SelectSeq(invs, LAMBDA v :
                    v.status = "paid" /\ dateFilter(v, fromDate, toDate))
        cancelled == SelectSeq(invs, LAMBDA v :
                    v.status = "cancelled" /\ dateFilter(v, fromDate, toDate))
    IN  CASE query = "countPaid" -> Len(paid)
          [] query = "sumPaid" -> sumGrandTotal(paid)
          [] query = "countCancelled" -> Len(cancelled)

\* the object getInvoiceStats returns, from the answers of the three queries
getInvoiceStats(answers, fromDate, toDate) ==
    [totalInvoices |-> answers["countPaid"],
     totalRevenue |-> answers["sumPaid"],
     cancelledInvoices |-> answers["countCancelled"],
     period |-> IF fromDate # <<>> /\ toDate # <<>>
                THEN <<fromDate[1], toDate[1]>> ELSE <<"all_time">>]

\* a request thread takes a statistics call and sends the three queries
StatsStart(p, fromDate, toDate) ==
    /\ Idle(p)
    /\ call' = [call EXCEPT ![p] =
                  [op |-> "stats", fromDate |-> fromDate, toDate |-> toDate]]
    /\ pc' = [pc EXCEPT ![p] = "squery"]
    /\ result' = [result EXCEPT ![p] = NoResult]
    /\ loc' = [loc EXCEPT ![p] = [answers |-> <<>>]]
    /\ tx' = [tx EXCEPT ![p] = NoTx]
    /\ UNCHANGED <<products, stock, invoices, ncalls>>

\* one of the queries not yet answered is answered, on the committed
\* invoices as they are at that moment; the store answers the three in any
\* order, and with the last answer Promise.all resolves and the call returns
StatsQuery(p, query) ==
    /\ pc[p] = "squery"
    /\ query \notin DOMAIN loc[p].answers
    /\ LET answer == statsQuery(query, invoices, call[p].fromDate,
                                call[p].toDate)
           answers == [q \in DOMAIN loc[p].answers \cup {query} |->
                          IF q = query THEN answer ELSE loc[p].answers[q]]
       IN  IF DOMAIN answers = StatsQueries
           THEN Finish(p, Ok(getInvoiceStats(answers, call[p].fromDate,
                                             call[p].toDate)))
           ELSE /\ loc' = [loc EXCEPT ![p].answers = answers]
                /\ UNCHANGED <<pc, tx, result>>
    /\ UNCHANGED <<products, stock, invoices, call, ncalls>>

-----------------------------------------------------------------------------
(* ProductService.createProduct *)

\* a request thread takes a createProduct call; generateUniqueSKU asks
\* checkSKUUniqueness for the base SKU, which is free (the calls modelled are
\* those whose base SKU is free, so no suffix is tried)
CreateStart(p, data) ==
    /\ Idle(p)
    /\ ncalls < MaxCalls
    /\ ncalls' = ncalls + 1
    /\ data.sku \in Skus
    /\ ~products[data.sku].exists
    /\ call' = [call EXCEPT ![p] =
                  [op |-> "create", sku |-> data.sku, name |-> data.name,
                   price |-> data.price, active |-> data.active,
                   initialStock |-> data.initialStock]]
    /\ loc' = [loc EXCEPT ![p] = [NoLoc EXCEPT !.productId = ncalls + 1]]
    /\ tx' = [tx EXCEPT ![p] = NoTx]
    /\ pc' = [pc EXCEPT ![p] = "pcreate"]
    /\ result' = [result EXCEPT ![p] = NoResult]
    /\ UNCHANGED <<products, stock, invoices>>

\* a product row inserted by another open transaction under the same SKU makes
\* the insert wait
ProductInsertWaits(p, sku) ==
    \E q \in Procs \ {p} :
        tx[q].product # <<>> /\ tx[q].product[1].sku = sku

\* fault variant of ProductCreate: the insert goes through the global client
\* and is committed on its own
ProductCreateAutocommit(p) ==
    /\ pc[p] = "pcreate"
    /\ ~ProductInsertWaits(p, call[p].sku)
    /\ IF products[call[p].sku].exists
       THEN Rollback(p, "UniqueConstraint")
       ELSE /\ products' = [products EXCEPT ![call[p].sku] =
                              [exists |-> TRUE,
                               active |-> IF call[p].active = <<>> THEN TRUE
                                          ELSE call[p].active[1],
                               name |-> call[p].name,
                               price |-> call[p].price,
                               id |-> loc[p].productId]]
            /\ tx' = [tx EXCEPT ![p].product =
                        <<[sku |-> call[p].sku,
                           row |-> products'[call[p].sku]]>>]
            /\ pc' = [pc EXCEPT ![p] = "pstock"]
            /\ UNCHANGED <<stock, invoices, call, loc, result, ncalls>>

\* tx.product.create: active defaults to true; the unique index on the SKU
ProductCreate(p) ==
    /\ pc[p] = "pcreate"
    /\ ~ProductInsertWaits(p, call[p].sku)
    /\ IF products[call[p].sku].exists
       THEN Rollback(p, "UniqueConstraint")
       ELSE /\ tx' = [tx EXCEPT ![p].product =
                        <<[sku |-> call[p].sku,
                           row |-> [exists |-> TRUE,
                                    active |-> IF call[p].active = <<>> THEN TRUE
                                               ELSE call[p].active[1],
                                    name |-> call[p].name,
                                    price |-> call[p].price,
                                    id |-> loc[p].productId]]>>]
            /\ pc' = [pc EXCEPT ![p] = "pstock"]
            /\ UNCHANGED <<products, stock, invoices, call, loc, result, ncalls>>

\* tx.stock.create: quantity from initialStock, 0 by default; soldTotal 0;
\* received_total and last_received_at by the defaults of their columns
StockCreate(p) ==
    /\ pc[p] = "pstock"
    /\ tx' = [tx EXCEPT ![p].stock =
                <<[exists |-> TRUE,
                   quantity |-> IF call[p].initialStock = <<>> THEN 0
                                ELSE call[p].initialStock[1],
                   receivedTotal |-> 0,
                   soldTotal |-> 0,
                   lastReceivedAt |-> "null"]>>]
    /\ pc' = [pc EXCEPT ![p] = "pcommit"]
    /\ UNCHANGED <<products, stock, invoices, call, loc, result, ncalls>>

\* the commit of the transaction and the response
CreateCommit(p) ==
    /\ pc[p] = "pcommit"
    /\ products' = [products EXCEPT ![call[p].sku] = tx[p].product[1].row]
    /\ stock' = [stock EXCEPT ![call[p].sku] = tx[p].stock[1]]
    /\ Finish(p, Ok([sku |-> call[p].sku,
                     name |-> tx[p].product[1].row.name,
                     price |-> tx[p].product[1].row.price,
                     active |-> tx[p].product[1].row.active,
                     stock |-> [quantity |-> tx[p].stock[1].quantity,
                                soldTotal |-> tx[p].stock[1].soldTotal]]))
    /\ UNCHANGED <<invoices, call, ncalls>>

-----------------------------------------------------------------------------
(* ProductService.deleteProduct *)

\* a request thread takes a deleteProduct call
DeleteStart(p, sku) ==
    /\ Idle(p)
    /\ ncalls < MaxCalls
    /\ ncalls' = ncalls + 1
    /\ call' = [call EXCEPT ![p] = [NoCall EXCEPT !.op = "delete", !.sku = sku]]
    /\ loc' = [loc EXCEPT ![p] = NoLoc]
    /\ tx' = [tx EXCEPT ![p] = NoTx]
    /\ pc' = [pc EXCEPT ![p] = "delfind"]
    /\ result' = [result EXCEPT ![p] = NoResult]
    /\ UNCHANGED <<products, stock, invoices>>

\* tx.product.findUnique for the id of the product
DeleteLookup(p) ==
    /\ pc[p] = "delfind"
    /\ LET sku == call[p].sku
       IN  IF sku \notin Skus \/ ~products[sku].exists
           THEN Rollback(p, "NotFound")
           ELSE /\ loc' = [loc EXCEPT ![p].productId = products[sku].id]
                /\ pc' = [pc EXCEPT ![p] = "delstock"]
                /\ UNCHANGED <<products, stock, invoices, call, tx, result,
                               ncalls>>

\* tx.stock.deleteMany by the product's id: the stock row, if there is one,
\* is deleted inside the transaction and stays locked until it ends
DeleteStock(p) ==
    /\ pc[p] = "delstock"
    /\ LET sku == call[p].sku
       IN  /\ ~RowLocked(p, sku)
           /\ tx' = [tx EXCEPT ![p].locked =
                        IF stock[sku].exists /\ HasProduct(sku, loc[p].productId)
                        THEN @ \cup {sku} ELSE @]
           /\ pc' = [pc EXCEPT ![p] = "delproduct"]
    /\ UNCHANGED <<products, stock, invoices, call, loc, result, ncalls>>

\* an invoice item inserted by another open transaction refers to the product
\* row: the delete waits for that transaction
DeleteWaits(p, sku) ==
    \E q \in Procs \ {p} :
        \E i \in 1..Len(tx[q].items) : tx[q].items[i].sku = sku

\* an invoice item refers to the product (invoice_items_product_id_fkey is
\* ON DELETE RESTRICT)
Referenced(sku) ==
    \E k \in 1..Len(invoices) :
        \E i \in 1..Len(invoices[k].items) : invoices[k].items[i].sku = sku

\* tx.product.delete by SKU and the commit of the transaction: the product
\* row goes, and with it (stocks_product_id_fkey is ON DELETE CASCADE) any
\* stock row of the product; the deleted product is returned
DeleteProduct(p) ==
    /\ pc[p] = "delproduct"
    /\ LET sku == call[p].sku
       IN  /\ ~DeleteWaits(p, sku)
           /\ ~RowLocked(p, sku)
           /\ IF ~products[sku].exists
              THEN Rollback(p, "RecordNotFound")
              ELSE IF Referenced(sku)
              THEN Rollback(p, "ForeignKeyConstraint")
              ELSE /\ products' = [products EXCEPT ![sku] = NoProduct]
                   /\ stock' = [stock EXCEPT ![sku] = NoStock]
                   /\ Finish(p, Ok([sku |-> sku,
                                    name |-> products[sku].name,
                                    price |-> products[sku].price,
                                    active |-> products[sku].active]))
                   /\ UNCHANGED <<invoices, call, ncalls>>

-----------------------------------------------------------------------------
(* generateUniqueSKU *)

PRODUCT_TYPE_CODES ==
    [BISCUIT |-> "BIS", SUGAR |-> "SUG", SALT |-> "SAL", NOODLES |-> "NOO",
     BREAD |-> "BRE", OIL |-> "OIL", RICE |-> "RIC", FLOUR |-> "FLO",
     SPICE |-> "SPI", DAIRY |-> "DAI"]

BRAND_CODES ==
    [PARLE |-> "PAR", TATA |-> "TAT", MAGGI |-> "MAG", BRITANNIA |-> "BRI",
     FORTUNE |-> "FOR", AASHIRVAAD |-> "AAS", AMUL |-> "AMU", EVEREST |-> "EVE",
     PATANJALI |-> "PAT", GENERIC |-> "GEN"]

UNIT_CODES ==
    [GRAM |-> "G", KILOGRAM |-> "K", LITER |-> "L", MILLILITER |-> "M",
     PIECE |-> "P"]

\* type, brand, weight and unit codes in a row (weights are whole numbers)
generateBaseSKU(productInfo) ==
    PRODUCT_TYPE_CODES[productInfo.productType]
        \o BRAND_CODES[productInfo.brand]
        \o ToString(productInfo.weight)
        \o UNIT_CODES[productInfo.weightUnit]

\* sequence.toString().padStart(2, '0')
sequenceStr(sequence) ==
    IF sequence < 10 THEN "0" \o ToString(sequence) ELSE ToString(sequence)

\* the candidates of a base SKU: number 0 is the base itself
candidateSku(baseSKU, n) ==
    IF n = 0 THEN baseSKU ELSE baseSKU \o sequenceStr(n)

\* the SKUs the catalog may hold when a SKU is generated: the first n
\* candidates, or every candidate but one
TakenSets(baseSKU) ==
    { { candidateSku(baseSKU, k) : k \in 0..(n - 1) } : n \in 0..100 }
        \cup { { candidateSku(baseSKU, k) : k \in (0..99) \ {n} } :
                 n \in 0..99 }

\* a request thread starts generateUniqueSKU against a catalog that holds
\* the SKUs taken
GenerateStart(p, productInfo, taken) ==
    /\ Idle(p)
    /\ ncalls < MaxCalls
    /\ ncalls' = ncalls + 1
    /\ call' = [call EXCEPT ![p] =
                  [op |-> "generate", productInfo |-> productInfo,
                   taken |-> taken]]
    /\ loc' = [loc EXCEPT ![p] =
                  [baseSKU |-> generateBaseSKU(productInfo), sequence |-> 0,
                   uniqueSKU |-> ""]]
    /\ tx' = [tx EXCEPT ![p] = NoTx]
    /\ pc' = [pc EXCEPT ![p] = "gbase"]
    /\ result' = [result EXCEPT ![p] = NoResult]
    /\ UNCHANGED <<products, stock, invoices>>

\* checkSKUUniqueness: no product has the SKU
checkUniqueness(p, sku) == sku \notin call[p].taken

\* the uniqueness check of the base SKU
CheckBase(p) ==
    /\ pc[p] = "gbase"
    /\ IF checkUniqueness(p, loc[p].baseSKU)
       THEN Finish(p, Ok(loc[p].baseSKU))
       ELSE /\ pc' = [pc EXCEPT ![p] = "gseq"]
            /\ loc' = [loc EXCEPT ![p].sequence = 1]
            /\ UNCHANGED <<result, tx>>
    /\ UNCHANGED <<products, stock, invoices, call, ncalls>>

\* one pass of the do-while loop: the candidate is built, sequence is
\* raised, the candidate is checked; after the loop the throw on
\* sequence > 99, else the candidate is returned
CheckSequence(p) ==
    /\ pc[p] = "gseq"
    /\ LET uniqueSKU == loc[p].baseSKU \o sequenceStr(loc[p].sequence)
           sequence == loc[p].sequence + 1
       IN  IF ~checkUniqueness(p, uniqueSKU) /\ sequence <= MaxSequence
           THEN /\ loc' = [loc EXCEPT ![p].sequence = sequence,
                                      ![p].uniqueSKU = uniqueSKU]
                /\ UNCHANGED <<pc, result, tx>>
           ELSE IF sequence > MaxSequence
           THEN Finish(p, Err("UnableToGenerate"))
           ELSE Finish(p, Ok(uniqueSKU))
    /\ UNCHANGED <<products, stock, invoices, call, ncalls>>

-----------------------------------------------------------------------------
(* StockService.receiveStock *)

\* a request thread takes a receive call and validates the quantity
ReceiveStart(p, sku, qty) ==
    /\ Idle(p)
    /\ ncalls < MaxCalls
    /\ ncalls' = ncalls + 1
    /\ sku \in Skus => stock[sku].quantity + qty <= MaxStock
    /\ call' = [call EXCEPT ![p] =
                  [NoCall EXCEPT !.op = "receive", !.sku = sku, !.qty = qty]]
    /\ loc' = [loc EXCEPT ![p] = NoLoc]
    /\ tx' = [tx EXCEPT ![p] = NoTx]
    /\ IF qty <= 0
       THEN /\ pc' = [pc EXCEPT ![p] = "done"]
            /\ result' = [result EXCEPT ![p] = Err("InvalidQuantity")]
       ELSE /\ pc' = [pc EXCEPT ![p] = "rfind"]
            /\ result' = [result EXCEPT ![p] = NoResult]
    /\ UNCHANGED <<products, stock, invoices>>

\* fault variant of ReceiveLookup: the active flag is not looked at
ReceiveLookupAnyProduct(p) ==
    /\ pc[p] = "rfind"
    /\ LET sku == call[p].sku
       IN  IF sku \notin Skus \/ ~products[sku].exists
           THEN Finish(p, Err("NotFound"))
           ELSE /\ pc' = [pc EXCEPT ![p] = "rread"]
                /\ loc' = [loc EXCEPT ![p].productId = products[sku].id]
                /\ UNCHANGED <<result, tx>>
    /\ UNCHANGED <<products, stock, invoices, call, ncalls>>

\* prisma.product.findUnique by SKU and the checks on the product
ReceiveLookup(p) ==
    /\ pc[p] = "rfind"
    /\ LET sku == call[p].sku
       IN  IF sku \notin Skus \/ ~products[sku].exists
           THEN Finish(p, Err("NotFound"))
           ELSE IF ~products[sku].active
           THEN Finish(p, Err("InactiveProduct"))
           ELSE /\ pc' = [pc EXCEPT ![p] = "rread"]
                /\ loc' = [loc EXCEPT ![p].productId = products[sku].id]
                /\ UNCHANGED <<result, tx>>
    /\ UNCHANGED <<products, stock, invoices, call, ncalls>>

\* prisma.stock.upsert, first statement: the upsert asks for the product of
\* the row (include), so the client sends it as a read of the stock row by
\* product id followed by an update or a create
ReceiveUpsertRead(p) ==
    /\ pc[p] = "rread"
    /\ loc' = [loc EXCEPT ![p].stockFound =
                  stock[call[p].sku].exists
                      /\ HasProduct(call[p].sku, loc[p].productId)]
    /\ pc' = [pc EXCEPT ![p] = "rupsert"]
    /\ UNCHANGED <<products, stock, invoices, call, tx, result, ncalls>>

\* fault variant of ReceiveUpsert: the update branch sets the quantity to the
\* received qty instead of incrementing it
ReceiveUpsertSet(p) ==
    /\ pc[p] = "rupsert"
    /\ LET sku == call[p].sku
           qty == call[p].qty
           found == loc[p].stockFound
       IN  /\ ~RowLocked(p, sku)
           /\ IF found /\ ~(stock[sku].exists /\ HasProduct(sku, loc[p].productId))
              THEN /\ Finish(p, Err("RecordNotFound"))
                   /\ UNCHANGED stock
              ELSE IF ~found /\ ~HasProduct(sku, loc[p].productId)
              THEN /\ Finish(p, Err("ForeignKeyConstraint"))
                   /\ UNCHANGED stock
              ELSE IF ~found /\ stock[sku].exists
              THEN /\ Finish(p, Err("UniqueConstraint"))
                   /\ UNCHANGED stock
              ELSE LET row ==
                           IF found
                           THEN [stock[sku] EXCEPT !.quantity = qty,
                                                   !.receivedTotal = @ + qty,
                                                   !.lastReceivedAt = "now"]
                           ELSE [exists |-> TRUE, quantity |-> qty,
                                 receivedTotal |-> qty, soldTotal |-> 0,
                                 lastReceivedAt |-> "now"]
                   IN  /\ stock' = [stock EXCEPT ![sku] = row]
                       /\ Finish(p, Ok([sku |-> sku, quantity |-> row.quantity,
                                        receivedTotal |-> row.receivedTotal,
                                        soldTotal |-> row.soldTotal]))
    /\ UNCHANGED <<products, invoices, call, ncalls>>

\* prisma.stock.upsert, second statement.  A row read is updated by
\* increments, on the row as it is then (gone since: record not found); with
\* no row read one is created, which the unique index on the product id
\* refuses when another request has created it since, and the foreign key
\* when the product is gone
ReceiveUpsert(p) ==
    /\ pc[p] = "rupsert"
    /\ LET sku == call[p].sku
           qty == call[p].qty
           found == loc[p].stockFound
       IN  /\ ~RowLocked(p, sku)
           /\ IF found /\ ~(stock[sku].exists /\ HasProduct(sku, loc[p].productId))
              THEN /\ Finish(p, Err("RecordNotFound"))
                   /\ UNCHANGED stock
              ELSE IF ~found /\ ~HasProduct(sku, loc[p].productId)
              THEN /\ Finish(p, Err("ForeignKeyConstraint"))
                   /\ UNCHANGED stock
              ELSE IF ~found /\ stock[sku].exists
              THEN /\ Finish(p, Err("UniqueConstraint"))
                   /\ UNCHANGED stock
              ELSE LET row ==
                           IF found
                           THEN [stock[sku] EXCEPT !.quantity = @ + qty,
                                                   !.receivedTotal = @ + qty,
                                                   !.lastReceivedAt = "now"]
                           ELSE [exists |-> TRUE, quantity |-> qty,
                                 receivedTotal |-> qty, soldTotal |-> 0,
                                 lastReceivedAt |-> "now"]
                   IN  /\ stock' = [stock EXCEPT ![sku] = row]
                       /\ Finish(p, Ok([sku |-> sku, quantity |-> row.quantity,
                                        receivedTotal |-> row.receivedTotal,
                                        soldTotal |-> row.soldTotal]))
    /\ UNCHANGED <<products, invoices, call, ncalls>>

-----------------------------------------------------------------------------
(* StockService.decreaseStock, increaseStock and checkStockAvailability *)

\* a request thread takes a decreaseStock call
DecreaseStart(p, sku, qty) ==
    /\ Idle(p)
    /\ ncalls < MaxCalls
    /\ ncalls' = ncalls + 1
    /\ call' = [call EXCEPT ![p] =
                  [NoCall EXCEPT !.op = "decrease", !.sku = sku, !.qty = qty]]
    /\ loc' = [loc EXCEPT ![p] = NoLoc]
    /\ tx' = [tx EXCEPT ![p] = NoTx]
    /\ pc' = [pc EXCEPT ![p] = "dfind"]
    /\ result' = [result EXCEPT ![p] = NoResult]
    /\ UNCHANGED <<products, stock, invoices>>

\* prisma.product.findUnique with its stock row, and the two checks on what
\* was read; the message of the second is "Insufficient Stock for ...", a
\* kind of its own: errorHandler's "Insufficient stock" does not match it
DecreaseLookup(p) ==
    /\ pc[p] = "dfind"
    /\ LET sku == call[p].sku
       IN  IF sku \notin Skus \/ ~products[sku].exists \/ ~stock[sku].exists
           THEN Finish(p, Err("NotFound"))
           ELSE IF stock[sku].quantity < call[p].qty
           THEN Finish(p, Err("InsufficientStockFor"))
           ELSE /\ pc' = [pc EXCEPT ![p] = "dupdate"]
                /\ loc' = [loc EXCEPT ![p].productId = products[sku].id]
                /\ UNCHANGED <<result, tx>>
    /\ UNCHANGED <<products, stock, invoices, call, ncalls>>

\* prisma.stock.update by product id: decrement and increment on the row as
\* it is when the statement runs
DecreaseUpdate(p) ==
    /\ pc[p] = "dupdate"
    /\ LET sku == call[p].sku
           qty == call[p].qty
       IN  /\ ~RowLocked(p, sku)
           /\ IF ~stock[sku].exists \/ ~HasProduct(sku, loc[p].productId)
              THEN /\ Finish(p, Err("RecordNotFound"))
                   /\ UNCHANGED stock
              ELSE /\ stock' = [stock EXCEPT ![sku].quantity = @ - qty,
                                             ![sku].soldTotal = @ + qty]
                   /\ Finish(p, Ok(<<>>))
    /\ UNCHANGED <<products, invoices, call, ncalls>>

\* a request thread takes an increaseStock call
IncreaseStart(p, sku, qty) ==
    /\ Idle(p)
    /\ ncalls < MaxCalls
    /\ ncalls' = ncalls + 1
    /\ sku \in Skus => stock[sku].quantity + qty <= MaxStock
    /\ call' = [call EXCEPT ![p] =
                  [NoCall EXCEPT !.op = "increase", !.sku = sku, !.qty = qty]]
    /\ loc' = [loc EXCEPT ![p] = NoLoc]
    /\ tx' = [tx EXCEPT ![p] = NoTx]
    /\ pc' = [pc EXCEPT ![p] = "ifind"]
    /\ result' = [result EXCEPT ![p] = NoResult]
    /\ UNCHANGED <<products, stock, invoices>>

\* prisma.product.findUnique by SKU
IncreaseLookup(p) ==
    /\ pc[p] = "ifind"
    /\ LET sku == call[p].sku
       IN  IF sku \notin Skus \/ ~products[sku].exists
           THEN Finish(p, Err("NotFound"))
           ELSE /\ pc' = [pc EXCEPT ![p] = "iupsert"]
                /\ loc' = [loc EXCEPT ![p].productId = products[sku].id]
                /\ UNCHANGED <<result, tx>>
    /\ UNCHANGED <<products, stock, invoices, call, ncalls>>

\* fault variant of IncreaseUpsert: an update in place of the upsert, which
\* fails on a product without stock row
IncreaseUpsertUpdateOnly(p) ==
    /\ pc[p] = "iupsert"
    /\ LET sku == call[p].sku
           qty == call[p].qty
       IN  /\ ~RowLocked(p, sku)
           /\ IF ~stock[sku].exists \/ ~HasProduct(sku, loc[p].productId)
              THEN /\ Finish(p, Err("RecordNotFound"))
                   /\ UNCHANGED stock
              ELSE /\ stock' = [stock EXCEPT ![sku].quantity = @ + qty,
                                             ![sku].soldTotal = @ - qty]
                   /\ Finish(p, Ok(<<>>))
    /\ UNCHANGED <<products, invoices, call, ncalls>>

\* prisma.stock.upsert by product id
IncreaseUpsert(p) ==
    /\ pc[p] = "iupsert"
    /\ LET sku == call[p].sku
           qty == call[p].qty
       IN  /\ ~RowLocked(p, sku)
           /\ IF ~HasProduct(sku, loc[p].productId)
              THEN /\ Finish(p, Err("ForeignKeyConstraint"))
                   /\ UNCHANGED stock
              ELSE /\ stock' = [stock EXCEPT ![sku] =
                                  IF stock[sku].exists
                                  THEN [stock[sku] EXCEPT !.quantity = @ + qty,
                                                          !.soldTotal = @ - qty]
                                  ELSE [exists |-> TRUE, quantity |-> qty,
                                        receivedTotal |-> 0, soldTotal |-> 0,
                                        lastReceivedAt |-> "null"]]
                   /\ Finish(p, Ok(<<>>))
    /\ UNCHANGED <<products, invoices, call, ncalls>>

\* a request thread takes a checkStockAvailability call
CheckStart(p, items) ==
    /\ Idle(p)
    /\ ncalls < MaxCalls
    /\ ncalls' = ncalls + 1
    /\ call' = [call EXCEPT ![p] =
                  [NoCall EXCEPT !.op = "check", !.items = items]]
    /\ loc' = [loc EXCEPT ![p] = [NoLoc EXCEPT !.i = 1]]
    /\ tx' = [tx EXCEPT ![p] = NoTx]
    /\ pc' = [pc EXCEPT ![p] = "check"]
    /\ result' = [result EXCEPT ![p] = NoResult]
    /\ UNCHANGED <<products, stock, invoices>>

\* one pass of the loop of checkStockAvailability; after the last item the
\* call returns the flag and the list
CheckStockAvailability(p) ==
    /\ pc[p] = "check"
    /\ LET items == call[p].items
           i == loc[p].i
           unavailableItems == checkItem(items[i], loc[p].unavailableItems)
       IN  IF i < Len(items)
           THEN /\ loc' = [loc EXCEPT ![p].i = i + 1,
                                      ![p].unavailableItems = unavailableItems]
                /\ UNCHANGED <<pc, result, tx>>
           ELSE Finish(p, Ok([available |-> unavailableItems = <<>>,
                              unavailableItems |-> unavailableItems]))
    /\ UNCHANGED <<products, stock, invoices, call, ncalls>>

-----------------------------------------------------------------------------

\* a stock row as ProductService.createProduct inserts it
NewStock(initialStock) == [NoStock EXCEPT !.exists = TRUE, !.quantity = initialStock]

\* the catalogs the calls run against.  Product A is active with an empty
\* stock row.  Product B is one of: active with an empty stock row; active
\* without stock row (the case getStockBySku and the upsert of receiveStock
\* provide for); created inactive with an initial stock of 1.
Catalogs ==
    { [active |-> TRUE, stock |-> NewStock(0)],
      [active |-> TRUE, stock |-> NoStock],
      [active |-> FALSE, stock |-> NewStock(1)] }

Init ==
    /\ \E b \in Catalogs :
          /\ products = [s \in Skus |->
                           [exists |-> TRUE,
                            active |-> IF s = "A" THEN TRUE ELSE b.active,
                            name |-> IF s = "A" THEN "Biscuit" ELSE "Sugar",
                            price |-> IF s = "A" THEN 1005 ELSE 2500,
                            id |-> 0]]
          /\ stock = [s \in Skus |-> IF s = "A" THEN NewStock(0) ELSE b.stock]
    /\ invoices = <<>>
    /\ pc = [p \in Procs |-> "idle"]
    /\ call = [p \in Procs |-> NoCall]
    /\ loc = [p \in Procs |-> NoLoc]
    /\ tx = [p \in Procs |-> NoTx]
    /\ result = [p \in Procs |-> NoResult]
    /\ ncalls = 0

Step(p) ==
    \/ \E c \in Checkouts : CheckoutStart(p, c.items, c.paymentMethod, c.key)
    \/ FindExisting(p)
    \/ CheckAvailability(p)
    \/ GetNextInvoiceNumber(p)
    \/ InvoiceCreate(p)
    \/ ProductFind(p)
    \/ InvoiceItemCreate(p)
    \/ StockUpdate(p)
    \/ CommitInvoice(p)
    \/ \E n \in CancelNumbers : CancelStart(p, n)
    \/ CancelLookup(p)
    \/ RestoreItem(p)
    \/ CancelCommit(p)
    \/ TxAbort(p)
    \/ \E r \in Receipts : ReceiveStart(p, r.sku, r.qty)
    \/ ReceiveLookup(p)
    \/ ReceiveUpsertRead(p)
    \/ ReceiveUpsert(p)

Next == \E p \in Procs : Step(p)

Spec == Init /\ [][Next]_vars

\* ProductService.updateProduct: prisma.product.update writes the given fields
\* of the product row; an unknown SKU makes the call throw and changes nothing
UpdateProduct(sku, updateData) ==
    /\ sku \in Skus
    /\ products[sku].exists
    /\ products' = [products EXCEPT ![sku] =
                       [f \in DOMAIN products[sku] |->
                           IF f \in DOMAIN updateData
                           THEN updateData[f] ELSE products[sku][f]]]
    /\ products' # products
    /\ UNCHANGED <<stock, invoices, pc, call, loc, tx, result, ncalls>>

\* the updates of a product offered to the model
Updates == { [active |-> FALSE] }

\* the same calls served one at a time: a step is taken only while every
\* other request thread is between calls
NextSeq == \E p \in Procs : Step(p) /\ \A q \in Procs \ {p} : Idle(q)

SpecSeq == Init /\ [][NextSeq]_vars

\* calls served one at a time while product A is switched off at any moment
NextCatalog ==
    \/ NextSeq
    \/ \E updateData \in Updates : UpdateProduct("A", updateData)

SpecCatalog == Init /\ [][NextCatalog]_vars

\* calls served one at a time, among them checkout requests the route refuses
NextRequests ==
    \/ NextSeq
    \/ \E p \in Procs, c \in MalformedCheckouts :
          /\ CheckoutStart(p, c.items, c.paymentMethod, c.key)
          /\ \A q \in Procs \ {p} : Idle(q)

SpecRequests == Init /\ [][NextRequests]_vars

\* the updates of product A offered next to the calls: a new name and price,
\* and the switch to inactive
ProductUpdates == { [name |-> "Rusk", price |-> 2000], [active |-> FALSE] }

\* the steps of receiving and selling stock of the catalog's products:
\* checkouts that pass validation and name known SKUs, receipts of a unit
SnapshotStep(p) ==
    \/ \E c \in Checkouts :
          /\ validate(c.items, c.paymentMethod) = ""
          /\ \A i \in 1..Len(c.items) : c.items[i].sku \in Skus
          /\ CheckoutStart(p, c.items, c.paymentMethod, c.key)
    \/ FindExisting(p)
    \/ CheckAvailability(p)
    \/ GetNextInvoiceNumber(p)
    \/ InvoiceCreate(p)
    \/ ProductFind(p)
    \/ InvoiceItemCreate(p)
    \/ StockUpdate(p)
    \/ CommitInvoice(p)
    \/ \E r \in Receipts :
          r.sku \in Skus /\ r.qty > 0 /\ ReceiveStart(p, r.sku, r.qty)
    \/ ReceiveLookup(p)
    \/ ReceiveUpsertRead(p)
    \/ ReceiveUpsert(p)

\* stock is received and sold, one call at a time, while product A is
\* renamed, repriced and switched off
NextSnapshot ==
    \/ \E p \in Procs : SnapshotStep(p) /\ \A q \in Procs \ {p} : Idle(q)
    \/ \E updateData \in ProductUpdates : UpdateProduct("A", updateData)

SpecSnapshot == Init /\ [][NextSnapshot]_vars

\* receive, checkout, cancel and increaseStock calls on the products of the
\* catalog, served one after the other by one request thread
NextCounters ==
    \E p \in {"r1"} :
        /\ \/ SnapshotStep(p)
           \/ \E n \in CancelNumbers : CancelStart(p, n)
           \/ CancelLookup(p)
           \/ RestoreItem(p)
           \/ CancelCommit(p)
           \/ TxAbort(p)
           \/ \E d \in Adjustments :
                 d.sku \in Skus /\ IncreaseStart(p, d.sku, d.qty)
           \/ IncreaseLookup(p)
           \/ IncreaseUpsert(p)

SpecCounters == Init /\ [][NextCounters]_vars

\* the request thread that takes the statistics calls
StatsProcs == {"r2"}

\* one thread takes statistics calls while the other takes the receive,
\* checkout and cancel calls; the steps of the two interleave, so a commit of
\* the one can fall between two queries of the other
NextStats ==
    \/ \E p \in Procs \ StatsProcs : Step(p)
    \/ \E p \in StatsProcs :
          \/ \E d \in Periods : StatsStart(p, d.fromDate, d.toDate)
          \/ \E query \in StatsQueries : StatsQuery(p, query)

SpecStats == Init /\ [][NextStats]_vars

\* a catalog with product A alone; B is yet to be created
InitProduct ==
    /\ products = [s \in Skus |->
                     IF s = "A"
                     THEN [exists |-> TRUE, active |-> TRUE, name |-> "Biscuit",
                           price |-> 1005, id |-> 0]
                     ELSE NoProduct]
    /\ stock = [s \in Skus |-> IF s = "A" THEN NewStock(0) ELSE NoStock]
    /\ invoices = <<>>
    /\ pc = [p \in Procs |-> "idle"]
    /\ call = [p \in Procs |-> NoCall]
    /\ loc = [p \in Procs |-> NoLoc]
    /\ tx = [p \in Procs |-> NoTx]
    /\ result = [p \in Procs |-> NoResult]
    /\ ncalls = 0

\* products are created and deleted and stock is received by concurrent
\* request threads
ProductStep(p) ==
    \/ \E data \in ProductData : CreateStart(p, data)
    \/ ProductCreate(p)
    \/ StockCreate(p)
    \/ CreateCommit(p)
    \/ \E sku \in AllSkus : DeleteStart(p, sku)
    \/ DeleteLookup(p)
    \/ DeleteStock(p)
    \/ DeleteProduct(p)
    \/ TxAbort(p)
    \/ \E r \in Receipts : ReceiveStart(p, r.sku, r.qty)
    \/ ReceiveLookup(p)
    \/ ReceiveUpsertRead(p)
    \/ ReceiveUpsert(p)

NextProduct == \E p \in Procs : ProductStep(p)

SpecProduct == InitProduct /\ [][NextProduct]_vars

\* SKUs are generated, one call after the other, against catalogs that hold
\* some of the candidates
SkuStep(p) ==
    \/ \E productInfo \in ProductInfos :
          \E taken \in TakenSets(generateBaseSKU(productInfo)) :
             GenerateStart(p, productInfo, taken)
    \/ CheckBase(p)
    \/ CheckSequence(p)

NextSku == \E p \in {"r1"} : SkuStep(p)

SpecSku == InitProduct /\ [][NextSku]_vars

\* the operations of StockService called from concurrent request threads
LedgerStep(p) ==
    \/ \E r \in Receipts : ReceiveStart(p, r.sku, r.qty)
    \/ ReceiveLookup(p)
    \/ ReceiveUpsertRead(p)
    \/ ReceiveUpsert(p)
    \/ \E d \in Adjustments : DecreaseStart(p, d.sku, d.qty)
    \/ DecreaseLookup(p)
    \/ DecreaseUpdate(p)
    \/ \E d \in Adjustments : IncreaseStart(p, d.sku, d.qty)
    \/ IncreaseLookup(p)
    \/ IncreaseUpsert(p)
    \/ \E items \in AvailabilityChecks : CheckStart(p, items)
    \/ CheckStockAvailability(p)

NextLedger == \E p \in Procs : LedgerStep(p)

SpecLedger == Init /\ [][NextLedger]_vars

-----------------------------------------------------------------------------
(* Notions the properties are stated in *)

\* the committed store
Store == <<stock, invoices>>

\* the on-hand quantity of a SKU as a checkout may count on it: 0 for an
\* unknown SKU and for a product without stock row
OnHand(sku) ==
    IF sku \in Skus /\ products[sku].exists /\ stock[sku].exists
    THEN stock[sku].quantity ELSE 0

\* units of a SKU on the items of one invoice
RECURSIVE QtyOf(_, _)
QtyOf(items, sku) ==
    IF items = <<>> THEN 0
    ELSE (IF Head(items).sku = sku THEN Head(items).qty ELSE 0)
         + QtyOf(Tail(items), sku)

\* units of a SKU on the items of the paid invoices
RECURSIVE PaidQty(_, _)
PaidQty(invs, sku) ==
    IF invs = <<>> THEN 0
    ELSE (IF Head(invs).status = "paid" THEN QtyOf(Head(invs).items, sku) ELSE 0)
         + PaidQty(Tail(invs), sku)

\* the lines of a cart that the current stock does not cover, as shortfalls
RECURSIVE Shortfalls(_)
Shortfalls(items) ==
    IF items = <<>> THEN <<>>
    ELSE (IF Head(items).qty > OnHand(Head(items).sku)
          THEN <<[sku |-> Head(items).sku, requested |-> Head(items).qty,
                  available |-> OnHand(Head(items).sku)]>>
          ELSE <<>>)
         \o Shortfalls(Tail(items))

\* the sum of the line totals stored on the items of an invoice
RECURSIVE SumLineTotals(_)
SumLineTotals(items) ==
    IF items = <<>> THEN 0
    ELSE Head(items).lineTotal + SumLineTotals(Tail(items))

\* the quantity a stock row shows, 0 while the product has no row
RowQuantity(st, sku) == IF st[sku].exists THEN st[sku].quantity ELSE 0

\* the units a step of request thread p commits to the quantity of a SKU: a
\* receipt adds its qty, a checkout takes the units of its cart, a
\* cancellation gives back the units of the invoice it cancels; any other
\* step commits nothing
CommittedDelta(p, sku) ==
    IF pc'[p] = "done" /\ result'[p].kind = "ok"
    THEN IF pc[p] = "rupsert"
         THEN (IF call[p].sku = sku THEN call[p].qty ELSE 0)
         ELSE IF pc[p] = "txcommit"
         THEN 0 - QtyOf(call[p].items, sku)
         ELSE IF pc[p] = "ccommit"
         THEN QtyOf(loc[p].invoice[1].items, sku)
         ELSE 0
    ELSE 0

\* the invoices with a given status, and what the paid ones add up to
WithStatus(status) == { k \in 1..Len(invoices) : invoices[k].status = status }

RECURSIVE Revenue(_)
Revenue(ks) ==
    IF ks = {} THEN 0
    ELSE LET k == CHOOSE k \in ks : TRUE
         IN  invoices[k].grandTotal + Revenue(ks \ {k})

\* the invoices with a given status created between two times
CreatedWithin(status, from, to) ==
    { k \in WithStatus(status) :
        from <= invoices[k].createdAt /\ invoices[k].createdAt <= to }

\* the figure of a statistics report that a query answers
StatsFigure(stats, query) ==
    CASE query = "countPaid" -> stats.totalInvoices
      [] query = "sumPaid" -> stats.totalRevenue
      [] query = "countCancelled" -> stats.cancelledInvoices

\* a step of a statistics call answers a query: the call holds no answer to
\* it before the step and holds one after it, or returns with it
StatsAnswered(p, query) ==
    /\ pc[p] = "squery"
    /\ query \notin DOMAIN loc[p].answers
    /\ \/ pc'[p] = "done"
       \/ pc'[p] = "squery" /\ query \in DOMAIN loc'[p].answers

\* the answer a statistics call holds after the step that answers the query
StatsAnswerAfter(p, query) ==
    IF pc'[p] = "done"
    THEN StatsFigure(result'[p].data[1], query)
    ELSE loc'[p].answers[query]

\* a statistics call returns the answers it held before its last step
StatsKept(p) ==
    \A query \in DOMAIN loc[p].answers :
        StatsFigure(result'[p].data[1], query) = loc[p].answers[query]

KeyTaken(key) == \E k \in 1..Len(invoices) : invoices[k].idempotencyKey = key

InCheckoutTx(p) ==
    pc[p] \in {"txinsert", "txline", "txitem", "txstock", "txcommit"}
InCancelTx(p) == pc[p] \in {"crestore", "ccommit"}

-----------------------------------------------------------------------------
(* Properties *)

\* C1: once an invoice is committed under a key, a checkout call whose
\* idempotency lookup runs afterwards with that key, whatever valid cart it
\* carries, returns that invoice (same number, same line items,
\* newInvoice = false) and changes neither the invoices nor any stock row.
C1_IdempotentReplay ==
    [][\A p \in Procs :
          (/\ pc[p] = "find"
           /\ pc'[p] # "find"
           /\ KeyTaken(call[p].idempotencyKey))
          => \E k \in 1..Len(invoices) :
                /\ invoices[k].idempotencyKey = call[p].idempotencyKey
                /\ pc'[p] = "done"
                /\ result'[p].kind = "ok"
                /\ result'[p].data[1].invoiceNumber = invoices[k].invoiceNumber
                /\ result'[p].data[1].newInvoice = FALSE
                /\ result'[p].data[1].items = invoices[k].items
                /\ Store' = Store]_vars

\* a replay has answered a cart that differs from the one that was invoiced
C1_Witness ==
    \E p \in Procs :
        /\ pc[p] = "done"
        /\ call[p].op = "checkout"
        /\ result[p].kind = "ok"
        /\ result[p].data[1].newInvoice = FALSE
        /\ call[p].items[1].qty # result[p].data[1].items[1].qty

\* C2: no two invoices share an idempotency key.
C2_OneInvoicePerKey ==
    \A i, j \in 1..Len(invoices) :
        i # j => invoices[i].idempotencyKey # invoices[j].idempotencyKey

\* two checkouts under one key both passed the lookup; one committed and the
\* other one's insert was refused
C2_Witness ==
    \E p, q \in Procs :
        /\ p # q
        /\ call[p].op = "checkout" /\ call[q].op = "checkout"
        /\ call[p].idempotencyKey = call[q].idempotencyKey
        /\ pc[p] = "done" /\ result[p].kind = "ok" /\ result[p].data[1].newInvoice
        /\ pc[q] = "done" /\ result[q].error = "UniqueConstraint"

\* C3: every stock row has quantity >= 0.
C3_QuantityNonNegative ==
    \A s \in Skus : stock[s].exists => stock[s].quantity >= 0

\* C4: a checkout whose availability check has gone stale (the on-hand
\* quantity no longer covers the line although this checkout has not yet
\* touched the row) has its decrement rejected with InsufficientStock.
C4_StaleDecrementRejected ==
    [][\A p \in Procs :
          (/\ pc[p] = "txstock"
           /\ loc'[p] # loc[p]
           /\ tx[p].sold[call[p].items[loc[p].i].sku] = 0
           /\ OnHand(call[p].items[loc[p].i].sku) < call[p].items[loc[p].i].qty)
          => /\ pc'[p] = "done"
             /\ result'[p].error = "InsufficientStock"]_vars

\* C5: checkout is all-or-nothing.  A step that fails a checkout inside its
\* transaction changes nothing in the store, the steps of an open checkout
\* transaction before its commit change nothing either, every invoice in the
\* store is complete (it has its items and its final totals), and no stock row
\* shows units sold or taken that no invoice accounts for.
C5_AllOrNothing ==
    /\ [](/\ \A k \in 1..Len(invoices) :
                /\ invoices[k].items # <<>>
                /\ invoices[k].subtotal > 0
                /\ invoices[k].grandTotal = invoices[k].subtotal
          /\ \A s \in Skus :
                stock[s].exists =>
                    /\ stock[s].soldTotal <= PaidQty(invoices, s)
                    /\ stock[s].quantity + PaidQty(invoices, s)
                           >= stock[s].receivedTotal)
    /\ [][\A p \in Procs :
             (/\ InCheckoutTx(p)
              /\ pc'[p] # pc[p] \/ loc'[p] # loc[p]
              /\ ~(pc'[p] = "done" /\ result'[p].kind = "ok"))
             => Store' = Store]_vars

\* a checkout failed on its second line, after the first line's decrement
C5_Witness ==
    \E p \in Procs :
        /\ pc[p] = "done"
        /\ call[p].op = "checkout"
        /\ Len(call[p].items) = 2
        /\ result[p].error = "InactiveProduct"
        /\ stock[call[p].items[1].sku].quantity >= 1

\* C6: served one call at a time, a checkout under a key without invoice whose
\* cart has a line the stock does not cover fails with InsufficientStock
\* carrying exactly the short lines (sku, requested, available), and a checkout
\* gets past the check only when no line is short; no step up to there changes
\* the store.
C6_InsufficientStock ==
    [][\A p \in Procs :
          /\ (pc[p] \in {"find", "avail"} /\ (pc'[p] # pc[p] \/ loc'[p] # loc[p]))
                => Store' = Store
          /\ (pc[p] = "avail" /\ pc'[p] # "avail")
                => IF Shortfalls(call[p].items) # <<>>
                   THEN /\ pc'[p] = "done"
                        /\ result'[p].kind = "error"
                        /\ result'[p].error = "InsufficientStock"
                        /\ result'[p].unavailableItems = Shortfalls(call[p].items)
                   ELSE pc'[p] = "txnum"]_vars

\* a checkout failed with two shortfalls, one of them on a SKU that has some
\* stock and one on a product without stock row
C6_Witness ==
    \E p \in Procs :
        /\ pc[p] = "done"
        /\ result[p].error = "InsufficientStock"
        /\ \E k \in 1..Len(result[p].unavailableItems) :
              /\ result[p].unavailableItems[k].available > 0
              /\ result[p].unavailableItems[k].requested
                    > result[p].unavailableItems[k].available
        /\ ~KeyTaken(call[p].idempotencyKey)

\* C7: invoice numbers are unique and each committed invoice has a number
\* greater than every invoice committed before it.
C7_NumbersIncrease ==
    \A i, j \in 1..Len(invoices) :
        i < j => invoices[i].invoiceNumber < invoices[j].invoiceNumber

\* two invoices are committed, and a checkout that had computed a number
\* which was taken meanwhile failed on its insert
C7_Witness ==
    /\ Len(invoices) >= 1
    /\ \E p \in Procs :
          /\ pc[p] = "done"
          /\ call[p].op = "checkout"
          /\ result[p].error = "UniqueConstraint"
          /\ ~KeyTaken(call[p].idempotencyKey)

\* C8: for every product, soldTotal equals the units of that product on the
\* items of the paid invoices.
C8_SoldMatchesPaidInvoices ==
    \A s \in Skus : stock[s].exists => stock[s].soldTotal = PaidQty(invoices, s)

\* C9: the commit of a cancellation adds, for every item of the invoice, the
\* item's qty to the product's quantity and subtracts it from soldTotal, and
\* sets the status to cancelled, all in one step; before it, and when the
\* cancellation fails, nothing of it is in the store.
C9_CancelRestores ==
    [][\A p \in Procs :
          (InCancelTx(p) /\ (pc'[p] # pc[p] \/ loc'[p] # loc[p]))
          => IF pc'[p] = "done" /\ result'[p].kind = "ok"
             THEN \E k \in 1..Len(invoices) :
                     /\ invoices[k].invoiceNumber = call[p].invoiceNumber
                     /\ invoices'[k] = [invoices[k] EXCEPT !.status = "cancelled"]
                     /\ \A j \in 1..Len(invoices) : j # k => invoices'[j] = invoices[j]
                     /\ Len(invoices') = Len(invoices)
                     /\ \A s \in Skus :
                           /\ stock'[s].quantity
                                 = stock[s].quantity + QtyOf(invoices[k].items, s)
                           /\ stock'[s].soldTotal
                                 = stock[s].soldTotal - QtyOf(invoices[k].items, s)
                           /\ stock'[s].receivedTotal = stock[s].receivedTotal
             ELSE Store' = Store]_vars

\* an invoice of two items was cancelled
C9_Witness ==
    \E p \in Procs :
        /\ pc[p] = "done"
        /\ call[p].op = "cancel"
        /\ result[p].kind = "ok"
        /\ result[p].data[1].status = "cancelled"
        /\ Len(result[p].data[1].items) = 2

\* C10: a cancel call whose lookup finds the invoice cancelled fails with
\* AlreadyCancelled, one whose lookup finds no invoice of that number fails
\* with NotFound, and neither changes the store.
C10_CancelRefused ==
    [][\A p \in Procs :
          (pc[p] = "cfind" /\ pc'[p] # "cfind")
          => /\ (\A k \in 1..Len(invoices) :
                    invoices[k].invoiceNumber # call[p].invoiceNumber)
                => /\ pc'[p] = "done"
                   /\ result'[p].error = "NotFound"
                   /\ Store' = Store
             /\ (\E k \in 1..Len(invoices) :
                    /\ invoices[k].invoiceNumber = call[p].invoiceNumber
                    /\ invoices[k].status = "cancelled")
                => /\ pc'[p] = "done"
                   /\ result'[p].error = "AlreadyCancelled"
                   /\ Store' = Store]_vars

\* an invoice was cancelled and a second cancel of it was refused
C10_Witness ==
    \E p \in Procs :
        /\ pc[p] = "done"
        /\ call[p].op = "cancel"
        /\ result[p].error = "AlreadyCancelled"
        /\ \E k \in 1..Len(invoices) :
              /\ invoices[k].invoiceNumber = call[p].invoiceNumber
              /\ invoices[k].status = "cancelled"

\* C11: stock is restored once per cancelled invoice: a cancellation commits
\* its restore and status change only on an invoice that is paid at that
\* moment, so of several concurrent cancels of one invoice one succeeds.
C11_RestoredOnce ==
    [][\A p \in Procs :
          (pc[p] = "ccommit" /\ pc'[p] = "done" /\ result'[p].kind = "ok")
          => \E k \in 1..Len(invoices) :
                /\ invoices[k].invoiceNumber = call[p].invoiceNumber
                /\ invoices[k].status = "paid"]_vars

\* C12: every invoice has status paid or cancelled, an invoice enters the
\* store as paid, and the only change of a status is from paid to cancelled
\* (so a cancelled invoice stays cancelled).
C12_StatusLifecycle ==
    /\ [](\A k \in 1..Len(invoices) : invoices[k].status \in {"paid", "cancelled"})
    /\ [][/\ Len(invoices') >= Len(invoices)
          /\ \A k \in 1..Len(invoices) :
                /\ invoices'[k].invoiceNumber = invoices[k].invoiceNumber
                /\ invoices'[k].status # invoices[k].status
                      => /\ invoices[k].status = "paid"
                         /\ invoices'[k].status = "cancelled"
          /\ \A k \in (Len(invoices) + 1)..Len(invoices') :
                invoices'[k].status = "paid"]_vars

\* a cancelled invoice went through a second, overlapping cancellation and is
\* still cancelled
C12_Witness ==
    /\ \A p \in Procs :
          /\ pc[p] = "done"
          /\ call[p].op = "cancel"
          /\ result[p].kind = "ok"
    /\ \E k \in 1..Len(invoices) : invoices[k].status = "cancelled"

\* C13: on every invoice in the store each item's lineTotal is qty times
\* unitPrice, the subtotal is the sum of the items' lineTotals, grandTotal
\* equals subtotal, and the totals are not the placeholder 0.
C13_TotalsConsistent ==
    \A k \in 1..Len(invoices) :
        /\ \A i \in 1..Len(invoices[k].items) :
              invoices[k].items[i].lineTotal
                  = invoices[k].items[i].qty * invoices[k].items[i].unitPrice
        /\ invoices[k].subtotal = SumLineTotals(invoices[k].items)
        /\ invoices[k].grandTotal = invoices[k].subtotal
        /\ invoices[k].subtotal # 0

\* C14: a checkout whose insert finds an invoice committed under its key (the
\* other request won the race) answers with that invoice, newInvoice = false,
\* instead of an error.
C14_LoserReturnsInvoice ==
    [][\A p \in Procs :
          (/\ pc[p] = "txinsert"
           /\ pc'[p] # "txinsert"
           /\ KeyTaken(call[p].idempotencyKey)
           /\ result'[p].error # "TransactionFailed")
          => /\ pc'[p] = "done"
             /\ result'[p].kind = "ok"
             /\ result'[p].data[1].idempotencyKey = call[p].idempotencyKey
             /\ result'[p].data[1].newInvoice = FALSE]_vars

\* C15: no update of a quantity is lost.  Every step changes the quantity of
\* every SKU, as it stands in the store at that step, by exactly what the
\* step commits: plus the qty of a committed receipt, minus the units of a
\* committed checkout, plus the units of a committed cancellation, and
\* nothing otherwise; so the quantity at any time is the initial one plus
\* all receipts minus all committed checkouts plus all committed restores.
C15_NoLostUpdate ==
    [][\A p \in Procs :
          (pc'[p] # pc[p] \/ loc'[p] # loc[p] \/ call'[p] # call[p])
          => \A s \in Skus :
                RowQuantity(stock', s) = RowQuantity(stock, s) + CommittedDelta(p, s)]_vars

\* a receipt is waiting for the stock row of a SKU that an open checkout
\* transaction has decremented, and units of that SKU were received before
C15_Witness ==
    \E p, q \in Procs :
        /\ pc[p] = "rupsert"
        /\ pc[q] = "txcommit"
        /\ tx[q].sold[call[p].sku] > 0
        /\ stock[call[p].sku].quantity > 0

\* C16: a key that has an invoice short-circuits the checkout: when the
\* lookup runs while the stock does not cover the cart (a row at 0 included)
\* or a product of the cart is inactive, the call still succeeds with the
\* stored invoice and the store is left as it is.
C16_ShortCircuit ==
    [][\A p \in Procs :
          (/\ pc[p] = "find"
           /\ pc'[p] # "find"
           /\ KeyTaken(call[p].idempotencyKey)
           /\ \/ Shortfalls(call[p].items) # <<>>
              \/ \E i \in 1..Len(call[p].items) :
                    /\ call[p].items[i].sku \in Skus
                    /\ ~products[call[p].items[i].sku].active)
          => /\ pc'[p] = "done"
             /\ result'[p].kind = "ok"
             /\ result'[p].data[1].idempotencyKey = call[p].idempotencyKey
             /\ result'[p].data[1].newInvoice = FALSE
             /\ Store' = Store]_vars

\* a checkout was answered from its key although the product of its cart has
\* been made inactive since the sale and its stock row is at 0
C16_Witness ==
    \E p \in Procs :
        /\ pc[p] = "done"
        /\ call[p].op = "checkout"
        /\ result[p].kind = "ok"
        /\ result[p].data[1].newInvoice = FALSE
        /\ result[p].data[1].items[1].sku = call[p].items[1].sku
        /\ ~products[call[p].items[1].sku].active
        /\ stock[call[p].items[1].sku].quantity = 0

\* C17: every stock row satisfies quantity = receivedTotal - soldTotal.
C17_LedgerRelation ==
    \A s \in Skus :
        stock[s].exists
            => stock[s].quantity = stock[s].receivedTotal - stock[s].soldTotal

\* C18: with calls served one at a time, the sequencer returns 1001 while
\* there is no invoice and the greatest stored number plus 1 otherwise, and
\* the k-th invoice of the store carries the number 1000 + k, whatever
\* checkouts failed or were rolled back in between.
C18_Sequencer ==
    /\ [](\A k \in 1..Len(invoices) : invoices[k].invoiceNumber = 1000 + k)
    /\ [][\A p \in Procs :
             (pc[p] = "txnum" /\ pc'[p] = "txinsert")
             => IF invoices = <<>>
                THEN loc'[p].invoiceNumber = 1001
                ELSE \E k \in 1..Len(invoices) :
                        /\ loc'[p].invoiceNumber = invoices[k].invoiceNumber + 1
                        /\ \A j \in 1..Len(invoices) :
                              invoices[j].invoiceNumber <= invoices[k].invoiceNumber]_vars

\* a checkout was rolled back after it had been given a number (its second
\* line is an inactive product), and the one invoice of the store, sold from
\* the single unit ever received and so committed later, carries 1001
C18_Witness ==
    /\ Len(invoices) = 1
    /\ invoices[1].invoiceNumber = 1001
    /\ stock["A"].receivedTotal = 1
    /\ \E p \in Procs :
          /\ pc[p] = "done"
          /\ call[p].op = "checkout"
          /\ result[p].error = "InactiveProduct"

\* C19: no step of a cancellation changes anything but the status of the
\* invoice it cancels and the quantity and soldTotal of stock rows: the items,
\* subtotal, grandTotal, invoiceNumber, idempotencyKey and paymentMethod of
\* that invoice, every other invoice, the products and the receivedTotal of
\* every stock row stay as they are.
C19_CancelTouchesStatusOnly ==
    [][\A p \in Procs :
          (/\ call[p].op = "cancel"
           /\ pc'[p] # pc[p] \/ loc'[p] # loc[p])
          => /\ Len(invoices') = Len(invoices)
             /\ \A k \in 1..Len(invoices) :
                   /\ invoices'[k].items = invoices[k].items
                   /\ invoices'[k].subtotal = invoices[k].subtotal
                   /\ invoices'[k].grandTotal = invoices[k].grandTotal
                   /\ invoices'[k].invoiceNumber = invoices[k].invoiceNumber
                   /\ invoices'[k].idempotencyKey = invoices[k].idempotencyKey
                   /\ invoices'[k].paymentMethod = invoices[k].paymentMethod
                   /\ invoices[k].invoiceNumber # call[p].invoiceNumber
                         => invoices'[k] = invoices[k]
             /\ products' = products
             /\ \A s \in Skus :
                   /\ stock'[s].exists = stock[s].exists
                   /\ stock'[s].receivedTotal = stock[s].receivedTotal]_vars

\* an invoice is cancelled and still has its items and its totals, and the
\* answer of the cancellation shows those items
C19_Witness ==
    \E k \in 1..Len(invoices) :
        /\ invoices[k].status = "cancelled"
        /\ invoices[k].items # <<>>
        /\ invoices[k].subtotal > 0
        /\ \E p \in Procs :
              /\ pc[p] = "done"
              /\ call[p].op = "cancel"
              /\ call[p].invoiceNumber = invoices[k].invoiceNumber
              /\ result[p].kind = "ok"
              /\ result[p].data[1].items = invoices[k].items

\* C20: a receipt of qty > 0 for an existing active product goes through to
\* the upsert, and the upsert adds qty to quantity and receivedTotal and
\* leaves soldTotal as it is, or, for a product without stock row, creates
\* the row with quantity = qty, receivedTotal = qty and soldTotal = 0; no
\* other row and no invoice changes.
C20_Receive ==
    [][\A p \in Procs :
          /\ (/\ pc[p] = "rfind"
              /\ pc'[p] # "rfind"
              /\ call[p].sku \in Skus
              /\ products[call[p].sku].exists
              /\ products[call[p].sku].active)
             => pc'[p] = "rread" /\ call[p].qty > 0
          /\ (pc[p] = "rupsert" /\ pc'[p] # "rupsert")
             => /\ pc'[p] = "done"
                /\ result'[p].kind = "ok"
                /\ stock'[call[p].sku].exists
                /\ IF stock[call[p].sku].exists
                   THEN /\ stock'[call[p].sku].quantity
                              = stock[call[p].sku].quantity + call[p].qty
                        /\ stock'[call[p].sku].receivedTotal
                              = stock[call[p].sku].receivedTotal + call[p].qty
                        /\ stock'[call[p].sku].soldTotal
                              = stock[call[p].sku].soldTotal
                   ELSE /\ stock'[call[p].sku].quantity = call[p].qty
                        /\ stock'[call[p].sku].receivedTotal = call[p].qty
                        /\ stock'[call[p].sku].soldTotal = 0
                /\ \A s \in Skus \ {call[p].sku} : stock'[s] = stock[s]
                /\ invoices' = invoices]_vars

\* C21: a receipt with qty <= 0 fails with InvalidQuantity, one for an unknown
\* SKU with NotFound and one for an inactive product with InactiveProduct,
\* and none of them creates or changes a stock row.
C21_ReceiveRefused ==
    [][\A p \in Procs :
          /\ (/\ Idle(p)
              /\ ncalls' # ncalls
              /\ call'[p].op = "receive"
              /\ call'[p].qty <= 0)
             => /\ pc'[p] = "done"
                /\ result'[p].error = "InvalidQuantity"
                /\ stock' = stock
          /\ (/\ pc[p] = "rfind"
              /\ pc'[p] # "rfind"
              /\ call[p].sku \notin Skus \/ ~products[call[p].sku].exists)
             => /\ pc'[p] = "done"
                /\ result'[p].error = "NotFound"
                /\ stock' = stock
          /\ (/\ pc[p] = "rfind"
              /\ pc'[p] # "rfind"
              /\ call[p].sku \in Skus
              /\ products[call[p].sku].exists
              /\ ~products[call[p].sku].active)
             => /\ pc'[p] = "done"
                /\ result'[p].error = "InactiveProduct"
                /\ stock' = stock]_vars

\* a receipt for an inactive product was refused and the row of that product
\* still shows its one unit, never received
C21_Witness ==
    \E p \in Procs :
        /\ pc[p] = "done"
        /\ call[p].op = "receive"
        /\ result[p].error = "InactiveProduct"
        /\ stock[call[p].sku].quantity = 1
        /\ stock[call[p].sku].receivedTotal = 0

\* C22: a checkout that reaches a cart line whose product is inactive fails
\* there with InactiveProduct, whatever stock that product has; the failure
\* leaves the stock rows and the invoices as they were and no invoice under
\* the key; and no invoice ever holds an item of an inactive product.
C22_InactiveProduct ==
    /\ [](\A k \in 1..Len(invoices) :
             \A i \in 1..Len(invoices[k].items) :
                 products[invoices[k].items[i].sku].active)
    /\ [][\A p \in Procs :
             (/\ pc[p] = "txline"
              /\ pc'[p] # pc[p] \/ loc'[p] # loc[p]
              /\ call[p].items[loc[p].i].sku \in Skus
              /\ products[call[p].items[loc[p].i].sku].exists
              /\ ~products[call[p].items[loc[p].i].sku].active
              /\ result'[p].error # "TransactionFailed")
             => /\ pc'[p] = "done"
                /\ result'[p].error = "InactiveProduct"
                /\ Store' = Store
                /\ \A k \in 1..Len(invoices') :
                      invoices'[k].idempotencyKey # call[p].idempotencyKey]_vars

\* a checkout failed on an inactive product that has the stock its line asks
\* for, and its key has no invoice
C22_Witness ==
    \E p \in Procs :
        /\ pc[p] = "done"
        /\ call[p].op = "checkout"
        /\ result[p].error = "InactiveProduct"
        /\ \E i \in 1..Len(call[p].items) :
              /\ ~products[call[p].items[i].sku].active
              /\ stock[call[p].items[i].sku].quantity >= call[p].items[i].qty
        /\ ~KeyTaken(call[p].idempotencyKey)

\* C23: a checkout request with an empty cart, an item with an empty sku, an
\* item whose qty is not positive, or without paymentMethod is answered with
\* a validation error by the step that takes it, which writes nothing; and no
\* invoice ever holds such an item.
C23_ValidationFirst ==
    /\ [](\A k \in 1..Len(invoices) :
             /\ invoices[k].paymentMethod # ""
             /\ \A i \in 1..Len(invoices[k].items) :
                   /\ invoices[k].items[i].sku # ""
                   /\ invoices[k].items[i].qty > 0)
    /\ [][\A p \in Procs :
             (/\ Idle(p)
              /\ ncalls' # ncalls
              /\ call'[p].op = "checkout"
              /\ \/ call'[p].items = <<>>
                 \/ call'[p].paymentMethod = ""
                 \/ \E i \in 1..Len(call'[p].items) :
                       \/ call'[p].items[i].sku = ""
                       \/ call'[p].items[i].qty <= 0)
             => /\ pc'[p] = "done"
                /\ result'[p].error = "ValidationError"
                /\ Store' = Store
                /\ tx'[p] = NoTx]_vars

\* a request whose second item has a negative qty was refused although its
\* first line could have been sold
C23_Witness ==
    \E p \in Procs :
        /\ pc[p] = "done"
        /\ call[p].op = "checkout"
        /\ result[p].error = "ValidationError"
        /\ Len(call[p].items) = 2
        /\ call[p].items[2].qty < 0
        /\ stock[call[p].items[1].sku].quantity >= call[p].items[1].qty

\* C24: the answer to a checkout carries status 201 and newInvoice = true
\* exactly when the step that produced it added the invoice to the store, and
\* status 200 and newInvoice = false exactly when it returned an invoice that
\* was stored under the key and added none.
C24_StatusCode ==
    [][\A p \in Procs :
          (/\ call[p].op = "checkout"
           /\ pc[p] # "done"
           /\ pc'[p] = "done"
           /\ result'[p].kind = "ok")
          => \/ /\ checkoutResponse(result'[p].data[1]).status = 201
                /\ checkoutResponse(result'[p].data[1]).data.newInvoice = TRUE
                /\ Len(invoices') = Len(invoices) + 1
                /\ invoices'[Len(invoices')].invoiceNumber
                      = checkoutResponse(result'[p].data[1]).data.invoiceNumber
             \/ /\ checkoutResponse(result'[p].data[1]).status = 200
                /\ checkoutResponse(result'[p].data[1]).data.newInvoice = FALSE
                /\ invoices' = invoices
                /\ \E k \in 1..Len(invoices) :
                      /\ invoices[k].idempotencyKey = call[p].idempotencyKey
                      /\ invoices[k].invoiceNumber
                            = checkoutResponse(result'[p].data[1]).data.invoiceNumber]_vars

\* one request was answered 201 and another one with the same key 200
C24_Witness ==
    \E p, q \in Procs :
        /\ pc[p] = "done" /\ pc[q] = "done"
        /\ call[p].op = "checkout" /\ call[q].op = "checkout"
        /\ result[p].kind = "ok" /\ result[q].kind = "ok"
        /\ checkoutResponse(result[p].data[1]).status = 201
        /\ checkoutResponse(result[q].data[1]).status = 200
        /\ call[p].idempotencyKey = call[q].idempotencyKey

\* C25: the message of the answer is 'Invoice #<n> created successfully' for
\* a new invoice and 'Invoice #<n> fetched successfully' for one returned
\* from its key.
C25_Message ==
    \A p \in Procs :
        (pc[p] = "done" /\ call[p].op = "checkout" /\ result[p].kind = "ok")
        => checkoutResponse(result[p].data[1]).message
              = <<"Invoice #", result[p].data[1].invoiceNumber,
                  IF result[p].data[1].newInvoice
                  THEN " created successfully" ELSE " fetched successfully">>

\* C26: a decreaseStock call that ends either subtracts qty from quantity and
\* adds it to soldTotal, or fails with NotFound when the product or its stock
\* row is missing, or fails with InsufficientStock when the quantity of the
\* row is below qty at that moment; a failing call leaves the rows as they
\* were, and so the decrement never takes quantity below zero, also when
\* another decrease of the same SKU runs at the same time.
C26_DecreaseChecked ==
    [][\A p \in Procs :
          (/\ call[p].op = "decrease"
           /\ pc[p] # "done"
           /\ pc'[p] = "done")
          => IF ~(call[p].sku \in Skus /\ products[call[p].sku].exists
                    /\ stock[call[p].sku].exists)
             THEN result'[p].error = "NotFound" /\ stock' = stock
             ELSE IF stock[call[p].sku].quantity - call[p].qty < 0
             THEN result'[p].error = "InsufficientStockFor" /\ stock' = stock
             ELSE /\ result'[p].kind = "ok"
                  /\ stock' = [stock EXCEPT
                                 ![call[p].sku].quantity = @ - call[p].qty,
                                 ![call[p].sku].soldTotal = @ + call[p].qty]]_vars

\* C27: an increaseStock call on a known product adds qty to quantity and
\* subtracts it from soldTotal of the product's stock row, and for a product
\* without stock row creates one holding qty, nothing received and nothing
\* sold, rather than failing; no other row changes.
C27_Increase ==
    [][\A p \in Procs :
          (/\ call[p].op = "increase"
           /\ pc[p] # "done"
           /\ pc'[p] = "done"
           /\ call[p].sku \in Skus
           /\ products[call[p].sku].exists)
          => /\ result'[p].kind = "ok"
             /\ stock'[call[p].sku].exists
             /\ \A s \in Skus \ {call[p].sku} : stock'[s] = stock[s]
             /\ IF stock[call[p].sku].exists
                THEN /\ stock'[call[p].sku].quantity
                          = stock[call[p].sku].quantity + call[p].qty
                     /\ stock'[call[p].sku].soldTotal
                          = stock[call[p].sku].soldTotal - call[p].qty
                     /\ stock'[call[p].sku].receivedTotal
                          = stock[call[p].sku].receivedTotal
                ELSE /\ stock'[call[p].sku].quantity = call[p].qty
                     /\ stock'[call[p].sku].soldTotal = 0
                     /\ stock'[call[p].sku].receivedTotal = 0]_vars

\* an increase was the call that gave an active product its stock row: the
\* row holds the unit, with nothing received and nothing sold
C27_Witness ==
    \E p \in Procs :
        /\ pc[p] = "done"
        /\ call[p].op = "increase"
        /\ result[p].kind = "ok"
        /\ products[call[p].sku].active
        /\ stock[call[p].sku].exists
        /\ stock[call[p].sku].quantity = 1
        /\ stock[call[p].sku].receivedTotal = 0
        /\ stock[call[p].sku].soldTotal = 0
        /\ stock[call[p].sku].lastReceivedAt = "null"
        /\ ncalls = 1

\* C28: no step of checkStockAvailability changes the store; each pass adds
\* to the list exactly the item it looked at when that item's qty exceeds
\* the quantity on hand (0 for an unknown SKU and for a product without
\* stock row), with its sku, requested qty and that quantity; and the call
\* returns the list and available = true exactly when the list is empty.
C28_Availability ==
    [][\A p \in Procs :
          (/\ call[p].op = "check"
           /\ pc[p] = "check"
           /\ pc'[p] # pc[p] \/ loc'[p] # loc[p])
          => LET item == call[p].items[loc[p].i]
                 list == IF item.qty > OnHand(item.sku)
                         THEN Append(loc[p].unavailableItems,
                                     [sku |-> item.sku,
                                      requested |-> item.qty,
                                      available |-> OnHand(item.sku)])
                         ELSE loc[p].unavailableItems
             IN  /\ Store' = Store
                 /\ products' = products
                 /\ IF loc[p].i < Len(call[p].items)
                    THEN /\ pc'[p] = "check"
                         /\ loc'[p].i = loc[p].i + 1
                         /\ loc'[p].unavailableItems = list
                    ELSE /\ pc'[p] = "done"
                         /\ result'[p].kind = "ok"
                         /\ result'[p].data[1].unavailableItems = list
                         /\ result'[p].data[1].available = (list = <<>>)]_vars

\* a check of two items, the first of an unknown SKU and the second of a
\* product with a unit on hand, reported the first item alone
C28_Witness ==
    \E p \in Procs :
        /\ pc[p] = "done"
        /\ call[p].op = "check"
        /\ result[p].kind = "ok"
        /\ ~result[p].data[1].available
        /\ result[p].data[1].unavailableItems
              = <<[sku |-> UnknownSku, requested |-> 1, available |-> 0]>>
        /\ Len(call[p].items) = 2
        /\ OnHand(call[p].items[2].sku) >= 1

\* C29: each figure of a statistics call without dates is what its query
\* finds in the store when it is answered: totalInvoices the number of paid
\* invoices, totalRevenue the sum of their grandTotal (0 when there is none),
\* cancelledInvoices the number of cancelled invoices; the call returns the
\* three answers for the period all_time and changes nothing; and a step that
\* turns an invoice from paid to cancelled lowers the first by 1, lowers the
\* second by that invoice's grandTotal and raises the third by 1.
C29_Stats ==
    /\ [][\A p \in Procs :
             (/\ pc[p] = "squery"
              /\ call[p].fromDate = <<>>
              /\ call[p].toDate = <<>>)
             => /\ \A query \in StatsQueries :
                      StatsAnswered(p, query)
                      => /\ StatsAnswerAfter(p, query)
                              = CASE query = "countPaid"
                                       -> Cardinality(WithStatus("paid"))
                                  [] query = "sumPaid"
                                       -> Revenue(WithStatus("paid"))
                                  [] query = "countCancelled"
                                       -> Cardinality(WithStatus("cancelled"))
                         /\ Store' = Store
                /\ pc'[p] = "done"
                   => /\ result'[p].kind = "ok"
                      /\ StatsKept(p)
                      /\ result'[p].data[1].period = <<"all_time">>]_vars
    /\ [][\A k \in 1..Len(invoices) :
             (/\ invoices[k].status = "paid"
              /\ Len(invoices') = Len(invoices)
              /\ invoices'[k].status = "cancelled")
             => /\ statsQuery("countPaid", invoices', <<>>, <<>>)
                     = statsQuery("countPaid", invoices, <<>>, <<>>) - 1
                /\ statsQuery("sumPaid", invoices', <<>>, <<>>)
                     = statsQuery("sumPaid", invoices, <<>>, <<>>)
                       - invoices[k].grandTotal
                /\ statsQuery("countCancelled", invoices', <<>>, <<>>)
                     = statsQuery("countCancelled", invoices, <<>>, <<>>)
                       + 1]_vars

\* statistics were asked for while one invoice was paid and another one
\* cancelled: they count one of each and the revenue of the paid one
C29_Witness ==
    \E p \in Procs :
        /\ pc[p] = "done"
        /\ call[p].op = "stats"
        /\ call[p].fromDate = <<>>
        /\ Len(invoices) = 2
        /\ result[p].data[1].totalInvoices = 1
        /\ result[p].data[1].cancelledInvoices = 1
        /\ result[p].data[1].totalRevenue > 0
        /\ \E k \in 1..2 :
              /\ invoices[k].status = "paid"
              /\ invoices[k].grandTotal = result[p].data[1].totalRevenue

\* C30: in every committed state a product exists exactly when its stock row
\* does, so the product and its row appear together and a product never has
\* a second row or none; a createProduct call that ends well has stored the
\* product with a row of quantity initialStock (0 when none is given),
\* nothing received and nothing sold; one that ends in an error has stored
\* neither; and a receipt changes the row of its product and no product.
C30_ProductWithStock ==
    /\ [](\A s \in Skus : products[s].exists <=> stock[s].exists)
    /\ [][\A p \in Procs :
             /\ (/\ call[p].op = "create"
                 /\ pc[p] # "done"
                 /\ pc'[p] = "done")
                => IF result'[p].kind = "ok"
                   THEN /\ ~products[call[p].sku].exists
                        /\ products'[call[p].sku].exists
                        /\ products'[call[p].sku].active
                             = (call[p].active # <<FALSE>>)
                        /\ stock'[call[p].sku]
                             = [exists |-> TRUE,
                                quantity |-> IF call[p].initialStock = <<>>
                                             THEN 0
                                             ELSE call[p].initialStock[1],
                                receivedTotal |-> 0,
                                soldTotal |-> 0,
                                lastReceivedAt |-> "null"]
                        /\ \A s \in Skus \ {call[p].sku} :
                              products'[s] = products[s] /\ stock'[s] = stock[s]
                   ELSE products' = products /\ stock' = stock
             /\ (/\ call[p].op = "receive"
                 /\ pc[p] # "done"
                 /\ pc'[p] = "done")
                => /\ products' = products
                   /\ \A s \in Skus : stock'[s].exists = stock[s].exists]_vars

\* a product was created without initial stock and a unit was then received
\* on it: the row created with the product holds the unit
C30_Witness ==
    \E p, q \in Procs :
        /\ pc[p] = "done" /\ call[p].op = "create" /\ result[p].kind = "ok"
        /\ call[p].initialStock = <<>>
        /\ pc[q] = "done" /\ call[q].op = "receive" /\ result[q].kind = "ok"
        /\ call[q].sku = call[p].sku
        /\ stock[call[p].sku]
              = [exists |-> TRUE, quantity |-> 1, receivedTotal |-> 1,
                 soldTotal |-> 0, lastReceivedAt |-> "now"]

\* C31: a step that changes a product changes no invoice; the items and the
\* subtotal of a stored invoice are the same after every step; and a
\* checkout that returns the invoice of its key returns the sku,
\* productName, qty, unitPrice and lineTotal stored on its items and the
\* stored subtotal, whatever the product's name, price and active flag have
\* become.
C31_Snapshot ==
    [][/\ products' # products => invoices' = invoices
       /\ \A k \in 1..Len(invoices) :
             /\ Len(invoices') >= k
             /\ invoices'[k].items = invoices[k].items
             /\ invoices'[k].subtotal = invoices[k].subtotal
       /\ \A p \in Procs :
             (/\ call[p].op = "checkout"
              /\ pc[p] = "find"
              /\ pc'[p] = "done"
              /\ result'[p].kind = "ok")
             => \E k \in 1..Len(invoices) :
                   /\ invoices[k].idempotencyKey = call[p].idempotencyKey
                   /\ result'[p].data[1].subtotal = invoices[k].subtotal
                   /\ result'[p].data[1].items
                        = [i \in 1..Len(invoices[k].items) |->
                             [sku |-> invoices[k].items[i].sku,
                              productName |-> invoices[k].items[i].productName,
                              qty |-> invoices[k].items[i].qty,
                              unitPrice |-> invoices[k].items[i].unitPrice,
                              lineTotal |-> invoices[k].items[i].lineTotal]]]_vars

\* an invoice was returned from its key after its product had been renamed,
\* repriced and switched off: the item shows the old name and price
C31_Witness ==
    \E p \in Procs :
        /\ pc[p] = "done"
        /\ call[p].op = "checkout"
        /\ result[p].kind = "ok"
        /\ ~result[p].data[1].newInvoice
        /\ \E i \in 1..Len(result[p].data[1].items) :
              LET item == result[p].data[1].items[i]
              IN  /\ item.productName # products[item.sku].name
                  /\ item.unitPrice # ToDecimal2(products[item.sku].price)
                  /\ ~products[item.sku].active

\* C32: in every step the receivedTotal of every stock row is at least what
\* it was, and when it differs the step is the upsert of a receive call for
\* that SKU, which raises it by the quantity received.
C32_ReceivedTotalMonotonic ==
    [][\A s \in Skus :
          /\ stock'[s].receivedTotal >= stock[s].receivedTotal
          /\ stock'[s].receivedTotal # stock[s].receivedTotal
             => \E p \in Procs :
                   /\ call[p].op = "receive"
                   /\ call[p].sku = s
                   /\ pc[p] # "done"
                   /\ pc'[p] = "done"
                   /\ result'[p].kind = "ok"
                   /\ stock'[s].receivedTotal
                        = stock[s].receivedTotal + call[p].qty]_vars

\* a unit was received, sold and given back by a cancel, and the row shows
\* the one unit received
C32_Witness ==
    \E p \in Procs, s \in Skus :
        /\ pc[p] = "done"
        /\ call[p].op = "cancel"
        /\ result[p].kind = "ok"
        /\ \E k \in 1..Len(invoices) :
              /\ invoices[k].invoiceNumber = call[p].invoiceNumber
              /\ invoices[k].status = "cancelled"
              /\ QtyOf(invoices[k].items, s) = 1
        /\ stock[s].receivedTotal = 1
        /\ stock[s].quantity = 1
        /\ stock[s].soldTotal = 0

\* C33: a checkout, cancel or receive call that ends in a validation error,
\* NotFound, InactiveProduct, InsufficientStock, AlreadyCancelled or
\* InvalidState is answered with a status from 400 to 499, and a call that
\* is answered 500 ended in none of these.
C33_DomainErrors4xx ==
    \A p \in Procs :
        (pc[p] = "done" /\ call[p].op \in {"checkout", "cancel", "receive"}
           /\ result[p].kind = "error")
        => IF result[p].error \in {"ValidationError", "InvalidQuantity",
                                    "NotFound", "InactiveProduct",
                                    "InsufficientStock", "AlreadyCancelled",
                                    "InvalidState"}
           THEN httpStatus(call[p].op, result[p]) \in 400..499
           ELSE httpStatus(call[p].op, result[p]) = 500

\* C34: a checkout whose lines for some SKU add up to more than the quantity
\* on hand ends its availability check rejected with InsufficientStock, and
\* no checkout commits a sale that takes a quantity below 0.
C34_SummedLines ==
    [][\A p \in Procs :
          /\ (/\ call[p].op = "checkout"
              /\ pc[p] = "avail"
              /\ pc'[p] # "avail"
              /\ \E s \in Skus : QtyOf(call[p].items, s) > OnHand(s))
             => /\ pc'[p] = "done"
                /\ result'[p].error = "InsufficientStock"
                /\ stock' = stock
          /\ (/\ call[p].op = "checkout"
              /\ pc[p] = "txcommit"
              /\ pc'[p] = "done")
             => \A s \in Skus : stock'[s].quantity >= 0]_vars

\* C35: a checkout whose lookup finds a cancelled invoice under its key
\* returns that invoice, with status cancelled and newInvoice = false, and
\* changes neither the invoices nor any stock row; and no step stores an
\* invoice under a key that a stored invoice, cancelled or not, already has.
C35_CancelledKeyReplay ==
    [][/\ \A p \in Procs :
             \A k \in 1..Len(invoices) :
                (/\ call[p].op = "checkout"
                 /\ pc[p] = "find"
                 /\ pc'[p] # "find"
                 /\ invoices[k].idempotencyKey = call[p].idempotencyKey
                 /\ invoices[k].status = "cancelled")
                => /\ pc'[p] = "done"
                   /\ result'[p].kind = "ok"
                   /\ result'[p].data[1].invoiceNumber = invoices[k].invoiceNumber
                   /\ result'[p].data[1].status = "cancelled"
                   /\ result'[p].data[1].newInvoice = FALSE
                   /\ Store' = Store
       /\ Len(invoices') > Len(invoices)
          => \A k \in 1..Len(invoices) :
                invoices[k].idempotencyKey
                   # invoices'[Len(invoices')].idempotencyKey]_vars

\* a checkout came back with the cancelled invoice of its key although the
\* stock given back by the cancel would have covered its cart
C35_Witness ==
    \E p \in Procs :
        /\ pc[p] = "done"
        /\ call[p].op = "checkout"
        /\ result[p].kind = "ok"
        /\ result[p].data[1].status = "cancelled"
        /\ result[p].data[1].newInvoice = FALSE
        /\ Len(invoices) = 1
        /\ Shortfalls(call[p].items) = <<>>
        /\ \A i \in 1..Len(call[p].items) :
              stock[call[p].items[i].sku].quantity > 0

\* C36: with calls served one at a time, the commit of a checkout takes from
\* each stock row the units its invoice lists for that SKU (quantity down,
\* soldTotal up, receivedTotal as it was), and the commit of the cancel of
\* that invoice gives the same units back (quantity up, soldTotal down,
\* receivedTotal as it was); so a cancel that directly follows its checkout
\* leaves every row as it was before the checkout.
C36_RoundTrip ==
    [][\A p \in Procs :
          /\ (/\ call[p].op = "checkout"
              /\ pc[p] = "txcommit"
              /\ pc'[p] = "done"
              /\ result'[p].kind = "ok")
             => /\ Len(invoices') = Len(invoices) + 1
                /\ \A s \in Skus :
                      stock'[s] =
                        [stock[s] EXCEPT
                           !.quantity =
                              @ - QtyOf(invoices'[Len(invoices')].items, s),
                           !.soldTotal =
                              @ + QtyOf(invoices'[Len(invoices')].items, s)]
          /\ (/\ call[p].op = "cancel"
              /\ pc[p] = "ccommit"
              /\ pc'[p] = "done"
              /\ result'[p].kind = "ok")
             => \E k \in 1..Len(invoices) :
                   /\ invoices[k].invoiceNumber = call[p].invoiceNumber
                   /\ invoices'[k].items = invoices[k].items
                   /\ \A s \in Skus :
                         stock'[s] =
                           [stock[s] EXCEPT
                              !.quantity = @ + QtyOf(invoices[k].items, s),
                              !.soldTotal = @ - QtyOf(invoices[k].items, s)]]_vars

\* two units were received, sold on one line and given back by the cancel
\* of that invoice: the row shows two on hand, two received, none sold
C36_Witness ==
    \E p, q \in Procs :
        /\ pc[p] = "done" /\ call[p].op = "checkout" /\ result[p].kind = "ok"
        /\ result[p].data[1].newInvoice
        /\ pc[q] = "done" /\ call[q].op = "cancel" /\ result[q].kind = "ok"
        /\ call[q].invoiceNumber = result[p].data[1].invoiceNumber
        /\ \E s \in Skus :
              /\ QtyOf(call[p].items, s) = 2
              /\ stock[s].quantity = 2
              /\ stock[s].receivedTotal = 2
              /\ stock[s].soldTotal = 0

\* C37: a checkout call with an empty cart or without paymentMethod ends in
\* a validation error in the step that takes it, whether or not its key has
\* an invoice; the lookup by key is the first step of a call that passed
\* validation, the availability check starts only from the lookup, and the
\* transaction starts only from the availability check; the lookup and the
\* availability check write nothing, and the first write of the call is
\* made by the step that follows them.
C37_Order ==
    [][\A p \in Procs :
          /\ (/\ Idle(p)
              /\ ncalls' # ncalls
              /\ call'[p].op = "checkout"
              /\ call'[p].items = <<>> \/ call'[p].paymentMethod = "")
             => /\ pc'[p] = "done"
                /\ result'[p].error = "ValidationError"
                /\ Store' = Store
          /\ (/\ Idle(p)
              /\ ncalls' # ncalls
              /\ call'[p].op = "checkout"
              /\ pc'[p] # "done")
             => pc'[p] = "find"
          /\ (pc'[p] = "find" /\ pc[p] # "find") => Idle(p)
          /\ (pc'[p] = "avail" /\ pc[p] # "avail") => pc[p] = "find"
          /\ (pc'[p] = "txnum" /\ pc[p] # "txnum") => pc[p] = "avail"
          /\ (pc'[p] = "txinsert" /\ pc[p] # "txinsert") => pc[p] = "txnum"
          /\ pc[p] \in {"find", "avail", "txnum"}
             => /\ tx[p] = NoTx
                /\ tx'[p] = NoTx
                /\ (pc'[p] # pc[p] \/ loc'[p] # loc[p]) => Store' = Store
          /\ (call[p].op = "checkout" /\ tx[p] = NoTx /\ tx'[p] # NoTx)
             => pc[p] = "txinsert"]_vars

\* a call with an empty cart, or without paymentMethod, was refused although
\* its key has an invoice
C37_Witness ==
    \E p \in Procs :
        /\ pc[p] = "done"
        /\ call[p].op = "checkout"
        /\ result[p].error = "ValidationError"
        /\ KeyTaken(call[p].idempotencyKey)

\* C38: each query of a statistics call given both dates counts or sums the
\* invoices created from fromDate to toDate, and the call reports that
\* period; each query of a call given one date or none counts or sums all
\* invoices, and the call reports all_time.
C38_DateRange ==
    [][\A p \in Procs :
          pc[p] = "squery"
          => LET from == call[p].fromDate
                 to == call[p].toDate
                 paid == IF from # <<>> /\ to # <<>>
                         THEN CreatedWithin("paid", from[1], to[1])
                         ELSE WithStatus("paid")
                 cancelled == IF from # <<>> /\ to # <<>>
                              THEN CreatedWithin("cancelled", from[1], to[1])
                              ELSE WithStatus("cancelled")
             IN  /\ \A query \in StatsQueries :
                       StatsAnswered(p, query)
                       => StatsAnswerAfter(p, query)
                            = CASE query = "countPaid" -> Cardinality(paid)
                                [] query = "sumPaid" -> Revenue(paid)
                                [] query = "countCancelled"
                                     -> Cardinality(cancelled)
                 /\ pc'[p] = "done"
                    => /\ StatsKept(p)
                       /\ result'[p].data[1].period
                            = IF from # <<>> /\ to # <<>>
                              THEN <<from[1], to[1]>>
                              ELSE <<"all_time">>]_vars

\* statistics asked for with a fromDate alone counted an invoice created
\* before that date
C38_Witness ==
    \E p \in Procs :
        /\ pc[p] = "done"
        /\ call[p].op = "stats"
        /\ call[p].fromDate = <<1>>
        /\ call[p].toDate = <<>>
        /\ result[p].data[1].totalInvoices = 1
        /\ Len(invoices) = 1
        /\ invoices[1].createdAt < 1
        /\ invoices[1].status = "paid"

\* C39: in every committed state every invoice has at least one item; the
\* commit that stores an invoice stores one item per line of the cart of its
\* call, in the order of the cart and with the sku and qty of the line; and
\* a call that does not reach its commit stores neither invoice nor item.
C39_ItemsOfInvoice ==
    /\ [](\A k \in 1..Len(invoices) : Len(invoices[k].items) >= 1)
    /\ [][\A p \in Procs :
             /\ (Len(invoices') > Len(invoices) /\ pc'[p] # pc[p])
                => /\ call[p].op = "checkout"
                   /\ pc[p] = "txcommit"
                   /\ Len(invoices') = Len(invoices) + 1
                   /\ Len(invoices'[Len(invoices')].items) = Len(call[p].items)
                   /\ \A i \in 1..Len(call[p].items) :
                         /\ invoices'[Len(invoices')].items[i].sku
                              = call[p].items[i].sku
                         /\ invoices'[Len(invoices')].items[i].qty
                              = call[p].items[i].qty
             /\ (/\ call[p].op = "checkout"
                 /\ pc[p] # "done"
                 /\ pc'[p] = "done"
                 /\ result'[p].kind = "error")
                => invoices' = invoices]_vars

\* a cart of two lines was invoiced with two items, and another checkout
\* was rolled back after its invoice row had been inserted
C39_Witness ==
    \E p, q \in Procs :
        /\ pc[p] = "done" /\ call[p].op = "checkout" /\ result[p].kind = "ok"
        /\ result[p].data[1].newInvoice
        /\ Len(call[p].items) = 2
        /\ \E k \in 1..Len(invoices) :
              /\ invoices[k].invoiceNumber = result[p].data[1].invoiceNumber
              /\ Len(invoices[k].items) = 2
        /\ pc[q] = "done" /\ call[q].op = "checkout"
        /\ result[q].error \in {"TransactionFailed", "InactiveProduct"}
        /\ ~KeyTaken(call[q].idempotencyKey)

\* C40: a call of generateUniqueSKU that ends returns the first of the
\* candidates base, base01, ..., base99 that the catalog does not hold, and
\* ends in the error only when the catalog holds all hundred; the check that
\* ends it is at most the hundredth (the base's, then one per sequence).
C40_FirstFreeCandidate ==
    [][\A p \in Procs :
          (/\ call[p].op = "generate"
           /\ pc[p] # "done"
           /\ pc'[p] = "done")
          => /\ pc[p] = "gseq" => 1 + loc[p].sequence <= 100
             /\ LET free == { n \in 0..99 :
                       candidateSku(loc[p].baseSKU, n) \notin call[p].taken }
                IN  IF free = {}
                    THEN result'[p].error = "UnableToGenerate"
                    ELSE /\ result'[p].kind = "ok"
                         /\ \E n \in free :
                               /\ \A m \in free : n <= m
                               /\ result'[p].data[1]
                                    = candidateSku(loc[p].baseSKU, n)]_vars

====
